---------------------------- MODULE Spec2Model ----------------------------
(***************************************************************************)
(* A model of the LabJackPython protocol core: command checksums            *)
(* (LabJackPython.py), the U3/U6 feedback packet builder (u3.py, u6.py),    *)
(* the stream state machine of Device and the device lock.                  *)
(*                                                                         *)
(* Python lists are 0-based, TLA+ sequences 1-based: offset i of the code   *)
(* is element i+1 of the sequence; At(b, i) reads code offset i.            *)
(***************************************************************************)
EXTENDS Integers, Sequences, FiniteSets, TLC

VARIABLES
    csBuf,      \* the command buffer handed to setChecksum / verifyChecksum
    csPc,       \* "raw" | "framed" | "mutated" | "verified" | "raised"
    csOrig,     \* the buffer as setChecksum returned it
    csMutAt,    \* code offset of the byte replaced after framing, -1 if none
    csVerify,   \* the value verifyChecksum returned: "none" | "True" | "False"
    fbDev,      \* device family whose getFeedback is called: "U3" | "U6"
    fbArgs,     \* getFeedback(*commandlist): the argument tuple, a forest
    fbPc,       \* "call" | "returned" | "raised"
    fbSent,     \* the bytes written to the device, <<>> when nothing was
    fbReadLen,  \* the number of bytes asked of read(), -1 when no read
    fbRcv,      \* rcvBuffer
    fbResults,  \* the list getFeedback returns
    fbExc,      \* the exception raised, "none" when the call returned
    \* ---- a U3 device object: fields of Device / U3
    deviceName,             \* "U3-LV" | "U3-HV"
    streamConfiged,
    streamStarted,
    streamPacketOffset,
    streamSamplesPerPacket, \* 0 until streamConfig sets it
    streamChannelNumbers,   \* <<>> until streamConfig sets it
    streamNegChannels,
    packetsPerRequest,
    \* ---- the streamData generator object the caller holds
    genPc,          \* "none" | "created" (body not entered) | "running" | "dead"
    genNumBytes,    \* its local numBytes
    genConvert,     \* its convert argument
    \* ---- the hardware behind the transport
    hwConfigured,
    hwStreaming,
    hwSamplesPerPacket,
    hwCounter,      \* PacketCounter of the next stream packet it builds
    \* ---- what the last operation did
    lastOp,         \* name of the last operation called
    lastExc,        \* the exception it raised, NoExc when it returned
    lastSent,       \* the buffers it handed to write(), in order
    lastRet,        \* what it yielded, when it is a next() of streamData
    lastAttrib,     \* the readings its processStreamData appended, each with
                    \* its channel, in the order they were appended
    lastPkts,       \* the packets the hardware built for its stream read
    lastRead,       \* what its read(stream = True) gave: "none" when it made
                    \* no such read, "raised", "empty", "partial" or "full"
    prevCounter,    \* PacketCounter of the last packet read before those, or -1
    \* ---- history
    packetsSeen,    \* stream packets built since the hardware started streaming
    sampleCount,    \* samples de-interleaved since the last successful streamStart
    \* ---- concurrent callers of one Device
    devType,        \* "U3" | "U6": the class of the device object
    deviceLock,     \* the thread holding Device.deviceLock, 0 when it is free
    thOp,           \* per thread: the operation it is in or was in last
    thPc,           \* per thread: where in the operation it is
    thOutcome,      \* per thread: how its last operation ended
    thWrites,       \* per thread: write() calls of its operation so far
    thFailed,       \* per thread: read() calls of its operation that raised
    \* ---- the streaming example scripts
    exScript,       \* "streamTest" | "threading", "none" when none is run
    exPc,           \* where the script (streamTest) or its reader thread
                    \* (threading) is
    exMainPc,       \* where the main thread of the threading script is
    exFinished,     \* sdr.finished
    exDataCount,    \* dataCount
    exQueue,        \* number of results waiting in sdr.data
    exLog,          \* stop commands written to the device and close() calls,
                    \* in order
    exRaised,       \* the call whose exception ended the session, or "none"
    exNoData,       \* "No stream data" lines printed by the reader thread,
                    \* modulo 2
    \* ---- one writeRegister call
    mbAddr,         \* addr
    mbValue,        \* value
    mbPc,           \* "call" | "returned" | "raised"
    mbRequest,      \* the request packet written
    mbResponse,     \* the response packet read
    mbRet,          \* the value returned, -1 when none was
    mbExc,          \* the exception raised, NoExc when none was
    \* ---- one U3._getAINLowLevel call
    ainDev,         \* deviceName of the U3 read
    ainPos,         \* posChannel
    ainNeg,         \* negChannel
    ainBits,        \* the bits getFeedback(AIN(...)) returned
    ainPc,          \* "call", "returned" or "raised"
    ainRet,         \* the voltage returned
    \* ---- one U6 streaming session
    u6Chans,        \* streamChannelNumbers
    u6Spp,          \* streamSamplesPerPacket
    u6Ppr,          \* packetsPerRequest
    u6Reads,        \* stream reads made since streamStart
    u6Count,        \* samples the device has sent since streamStart
    u6Last,         \* the readings of the last read, each with the channel it was filed under
    u6Exc           \* what the last read or conversion raised

csVars == <<csBuf, csPc, csOrig, csMutAt, csVerify>>
fbVars == <<fbDev, fbArgs, fbPc, fbSent, fbReadLen, fbRcv, fbResults, fbExc>>

objVars == <<deviceName, streamConfiged, streamStarted, streamPacketOffset,
             streamSamplesPerPacket, streamChannelNumbers, streamNegChannels,
             packetsPerRequest>>
genVars == <<genPc, genNumBytes, genConvert>>
hwVars == <<hwConfigured, hwStreaming, hwSamplesPerPacket, hwCounter>>
lastVars == <<lastOp, lastExc, lastSent, lastRet, lastAttrib, lastPkts, lastRead,
              prevCounter>>
histVars == <<packetsSeen, sampleCount>>
stVars == <<objVars, genVars, hwVars, lastVars, histVars>>
lkVars == <<devType, deviceLock, thOp, thPc, thOutcome, thWrites, thFailed>>
exVars == <<exScript, exPc, exMainPc, exFinished, exDataCount, exQueue, exLog,
            exRaised, exNoData>>

mbVars == <<mbAddr, mbValue, mbPc, mbRequest, mbResponse, mbRet, mbExc>>

ainVars == <<ainDev, ainPos, ainNeg, ainBits, ainPc, ainRet>>

u6Vars == <<u6Chans, u6Spp, u6Ppr, u6Reads, u6Count, u6Last, u6Exc>>

vars == <<csVars, fbVars, stVars, lkVars, exVars, mbVars, ainVars, u6Vars>>

\* what each part of the model leaves alone
csRest == <<fbVars, stVars, lkVars, exVars, mbVars, ainVars, u6Vars>>
fbRest == <<csVars, stVars, lkVars, exVars, mbVars, ainVars, u6Vars>>
stRest == <<csVars, fbVars, lkVars, exVars, mbVars, ainVars, u6Vars>>
lkRest == <<csVars, fbVars, stVars, exVars, mbVars, ainVars, u6Vars>>
exRest == <<csVars, fbVars, stVars, lkVars, mbVars, ainVars, u6Vars>>
mbRest == <<csVars, fbVars, stVars, lkVars, exVars, ainVars, u6Vars>>
ainRest == <<csVars, fbVars, stVars, lkVars, exVars, mbVars, u6Vars>>
u6Rest == <<csVars, fbVars, stVars, lkVars, exVars, mbVars, ainVars>>

----------------------------------------------------------------------------
(* Bounds of the model *)

\* longest command buffer drawn
MaxCmdLen == 7

\* byte values the buffers are drawn from: 0 and 1 make short-form command
\* bytes, 248 (0xF8) and 255 have the four command-type bits 0x78 set
ByteVals == {0, 1, 248, 255}

\* most stream packets one read() returns
MaxPacketsPerRead == 2

\* most stream packets read in one streaming session
MaxPackets == 3

\* threads calling into one Device
NumThreads == 2

\* most nodes (sub-commands and lists) of a getFeedback argument forest
MaxNodes == 4

\* deepest list nesting inside the argument tuple
MaxDepth == 2

\* requests an example script reads before it stops (MAX_REQUESTS)
MaxRequests == 2

----------------------------------------------------------------------------
(* Program constants *)

MAX_USB_PACKET_LENGTH == 64

----------------------------------------------------------------------------
(* Helpers *)

At(b, i) == b[i + 1]

RECURSIVE SumRange(_, _, _)
\* sum of (buffer[i] & 0xff) for i in range(lo, hi)
SumRange(b, lo, hi) ==
    IF lo >= hi THEN 0 ELSE (At(b, lo) % 256) + SumRange(b, lo + 1, hi)

----------------------------------------------------------------------------
(* Exceptions *)

NoNode == [kind |-> "none", name |-> "", items |-> <<>>]

\* an exception: its class, what it reports, the device error code and the
\* sub-command it names
Exc(type, why) == [type |-> type, why |-> why, code |-> 0, culprit |-> NoNode]
NoExc == Exc("none", "")


\* what streamData yields: None (kind "None") or returnDict (kind "dict");
\* ains is returnDict's AINi entries: channel number -> list of readings
NoAins == [c \in {} |-> <<>>]
Ret(kind, numPackets, result, errors, missed, firstPacket, ains) ==
    [kind |-> kind, numPackets |-> numPackets, result |-> result,
     errors |-> errors, missed |-> missed, firstPacket |-> firstPacket,
     ains |-> ains]
NoRet == Ret("none", 0, <<>>, 0, 0, 0, NoAins)

----------------------------------------------------------------------------
(* The parts of the model at rest, for the specifications that leave them   *)
(* alone                                                                    *)

Threads == 1..NumThreads

\* no voltage
NoReading == [kind |-> "none", nano |-> 0, milli |-> 0, hvCal |-> -1]

AinIdle ==
    /\ ainDev = "none"
    /\ ainPos = 0
    /\ ainNeg = 0
    /\ ainBits = 0
    /\ ainPc = "none"
    /\ ainRet = NoReading

U6Idle ==
    /\ u6Chans = <<>>
    /\ u6Spp = 0
    /\ u6Ppr = 0
    /\ u6Reads = 0
    /\ u6Count = 0
    /\ u6Last = <<>>
    /\ u6Exc = NoExc

MbIdle ==
    /\ mbAddr = 0
    /\ mbValue = 0
    /\ mbPc = "none"
    /\ mbRequest = <<>>
    /\ mbResponse = <<>>
    /\ mbRet = -1
    /\ mbExc = NoExc

ExIdle ==
    /\ exScript = "none"
    /\ exPc = "none"
    /\ exMainPc = "none"
    /\ exFinished = FALSE
    /\ exDataCount = 0
    /\ exQueue = 0
    /\ exLog = <<>>
    /\ exRaised = "none"
    /\ exNoData = 0

LkIdle ==
    /\ devType = "U3"
    /\ deviceLock = 0
    /\ thOp = [t \in Threads |-> "none"]
    /\ thPc = [t \in Threads |-> "idle"]
    /\ thOutcome = [t \in Threads |-> "none"]
    /\ thWrites = [t \in Threads |-> 0]
    /\ thFailed = [t \in Threads |-> 0]

CsIdle ==
    /\ csBuf = <<>>
    /\ csPc = "raised"
    /\ csOrig = <<>>
    /\ csMutAt = -1
    /\ csVerify = "none"

StIdle ==
    /\ deviceName = "U3-LV"
    /\ streamConfiged = FALSE
    /\ streamStarted = FALSE
    /\ streamPacketOffset = 0
    /\ streamSamplesPerPacket = 0
    /\ streamChannelNumbers = <<>>
    /\ streamNegChannels = <<>>
    /\ packetsPerRequest = 0
    /\ genPc = "none"
    /\ genNumBytes = 0
    /\ genConvert = TRUE
    /\ hwConfigured = FALSE
    /\ hwStreaming = FALSE
    /\ hwSamplesPerPacket = 0
    /\ hwCounter = 0
    /\ lastOp = "none"
    /\ lastExc = NoExc
    /\ lastSent = <<>>
    /\ lastRet = NoRet
    /\ lastAttrib = <<>>
    /\ lastPkts = <<>>
    /\ lastRead = "none"
    /\ prevCounter = -1
    /\ packetsSeen = 0
    /\ sampleCount = 0

FbIdle ==
    /\ fbDev = "U3"
    /\ fbArgs = <<>>
    /\ fbPc = "returned"
    /\ fbSent = <<>>
    /\ fbReadLen = -1
    /\ fbRcv = <<>>
    /\ fbResults = <<>>
    /\ fbExc = NoExc


----------------------------------------------------------------------------
(* Checksums: LabJackPython.py *)

setChecksum16(b) ==
    LET total == SumRange(b, 6, Len(b))
    IN  [b EXCEPT ![5] = total % 256,
                  ![6] = (total \div 256) % 256]

\* a checksum8 that also sums the checksum byte itself: range(0, numBytes)
setChecksum8_fromZero(b, numBytes) ==
    LET total == SumRange(b, 0, numBytes)
        first == (total % 256) + ((total \div 256) % 256)
    IN  [b EXCEPT ![1] = (first % 256) + ((first \div 256) % 256)]

setChecksum8(b, numBytes) ==
    LET total == SumRange(b, 1, numBytes)
        first == (total % 256) + ((total \div 256) % 256)
    IN  [b EXCEPT ![1] = (first % 256) + ((first \div 256) % 256)]

\* a = (command[1] & 0x78) >> 3; a == 15
IsExtended(b) == (At(b, 1) \div 8) % 16 = 15

\* setChecksum raises LabJackException for fewer than 6 bytes
setChecksumRaises(b) == Len(b) < 6

setChecksum(b) ==
    IF IsExtended(b)
    THEN setChecksum8(setChecksum16(b), 6)
    ELSE setChecksum8(b, Len(b))

\* a verifyChecksum that compares the checksum8 byte only
verifyChecksum_byte0Only(b) ==
    At(b, 0) = At(setChecksum(b), 0)

\* verifyChecksum saves bytes 0, 4 and 5, runs setChecksum on the SAME list
\* and compares
verifyChecksum(b) ==
    LET temp == setChecksum(b)
    IN  /\ At(b, 0) = At(temp, 0)
        /\ At(b, 4) = At(temp, 4)
        /\ At(b, 5) = At(temp, 5)

----------------------------------------------------------------------------
(* Checksum specification: a buffer is framed, possibly has one byte        *)
(* replaced, and is verified                                                *)

CmdBuffers ==
    UNION { { <<0>> \o t : t \in [1..(n - 1) -> ByteVals] } : n \in 5..MaxCmdLen }

InitChecksum ==
    /\ csBuf \in CmdBuffers
    /\ csPc = "raw"
    /\ csOrig = <<>>
    /\ csMutAt = -1
    /\ csVerify = "none"
    /\ FbIdle
    /\ StIdle
    /\ LkIdle
    /\ ExIdle
    /\ MbIdle
    /\ U6Idle
    /\ AinIdle

SetChecksumCall ==
    /\ csPc = "raw"
    /\ ~setChecksumRaises(csBuf)
    /\ csBuf' = setChecksum(csBuf)
    /\ csOrig' = setChecksum(csBuf)
    /\ csPc' = "framed"
    /\ UNCHANGED <<csMutAt, csVerify>>
    /\ UNCHANGED csRest

SetChecksumTooShort ==
    /\ csPc = "raw"
    /\ setChecksumRaises(csBuf)
    /\ csPc' = "raised"
    /\ UNCHANGED <<csBuf, csOrig, csMutAt, csVerify>>
    /\ UNCHANGED csRest

\* offsets that hold checksum bytes: 0, and 4-5 of an extended command
IsChecksumOffset(b, i) == i = 0 \/ (IsExtended(b) /\ i \in {4, 5})

\* the environment replaces one non-checksum byte by a different value
MutateByte ==
    /\ csPc = "framed"
    /\ \E i \in 1..(Len(csBuf) - 1), v \in ByteVals :
          /\ ~IsChecksumOffset(csBuf, i)
          /\ v # At(csBuf, i)
          /\ csBuf' = [csBuf EXCEPT ![i + 1] = v]
          /\ csMutAt' = i
    /\ csPc' = "mutated"
    /\ UNCHANGED <<csOrig, csVerify>>
    /\ UNCHANGED csRest

VerifyChecksumCall ==
    /\ csPc \in {"framed", "mutated"}
    /\ ~setChecksumRaises(csBuf)
    /\ csVerify' = IF verifyChecksum(csBuf) THEN "True" ELSE "False"
    /\ csBuf' = setChecksum(csBuf)
    /\ csPc' = "verified"
    /\ UNCHANGED <<csOrig, csMutAt>>
    /\ UNCHANGED csRest

NextChecksum ==
    \/ SetChecksumCall
    \/ SetChecksumTooShort
    \/ MutateByte
    \/ VerifyChecksumCall

SpecChecksum == InitChecksum /\ [][NextChecksum]_vars

----------------------------------------------------------------------------
(* Feedback sub-commands: u3.py, u6.py                                      *)
(* A node of the argument forest is a FeedbackCommand (kind "cmd") or a     *)
(* Python list of nodes (kind "list").                                      *)

Cmd(name) == [kind |-> "cmd", name |-> name, items |-> <<>>]
List(items) == [kind |-> "list", name |-> "list", items |-> items]

\* LED(True), BitStateRead(4), AIN(0, 31) on the U3 / AIN(0) on the U6: the
\* sub-commands the argument forests are made of
CmdNames == {"LED", "BitStateRead", "AIN"}

cmdBytes(dev, cmd) ==
    CASE cmd.name = "LED" -> <<9, 1>>
      [] cmd.name = "BitStateRead" -> <<10, 4>>
      [] cmd.name = "AIN" -> IF dev = "U3" THEN <<1, 0, 31>> ELSE <<1, 0, 0>>
      [] cmd.name = "Counter" -> <<54, 0>>
      [] cmd.name \in {"AIN24", "AIN24AR"} -> cmd.cmdBytes

readLen(cmd) ==
    CASE cmd.name = "LED" -> 0
      [] cmd.name = "BitStateRead" -> 1
      [] cmd.name = "AIN" -> 2
      [] cmd.name = "Counter" -> 4
      [] cmd.name = "AIN24" -> 3
      [] cmd.name = "AIN24AR" -> 5

\* handle(input): FeedbackCommand.handle returns None (-1 here),
\* BitStateRead int(bool(input[0])), AIN (input[1] << 8) + input[0],
\* Counter(0) struct.unpack('<I', input). On a slice shorter than the bytes
\* it indexes or unpacks, handle raises (-2 here). AIN24 returns
\* (input[2] << 16) + (input[1] << 8) + input[0]; of the dictionary
\* AIN24AR returns, the entry 'AIN' (the same number) is kept
handle(cmd, input) ==
    CASE cmd.name = "LED" -> -1
      [] Len(input) < readLen(cmd) -> -2
      [] cmd.name = "BitStateRead" -> IF At(input, 0) # 0 THEN 1 ELSE 0
      [] cmd.name = "AIN" -> (At(input, 1) * 256) + At(input, 0)
      [] cmd.name = "Counter" ->
            At(input, 0) + (At(input, 1) * 256) + (At(input, 2) * 65536)
                + (At(input, 3) * 16777216)
      [] cmd.name \in {"AIN24", "AIN24AR"} ->
            (At(input, 2) * 65536) + (At(input, 1) * 256) + At(input, 0)

\* the Python slice b[lo:hi], clipped to the list
Slice(b, lo, hi) ==
    LET h == IF hi > Len(b) THEN Len(b) ELSE hi
    IN  IF lo >= h THEN <<>> ELSE [k \in 1..(h - lo) |-> b[lo + k]]

RECURSIVE buildBuffer(_, _, _, _)
\* U3._buildBuffer / U6._buildBuffer: returns <<sendBuffer, readLen>>
buildBuffer(dev, sendBuffer, rdLen, commandlist) ==
    IF commandlist = <<>> THEN <<sendBuffer, rdLen>>
    ELSE LET cmd == Head(commandlist)
             step == IF cmd.kind = "cmd"
                     THEN <<sendBuffer \o cmdBytes(dev, cmd), rdLen + readLen(cmd)>>
                     ELSE buildBuffer(dev, sendBuffer, rdLen, cmd.items)
         IN  buildBuffer(dev, step[1], step[2], Tail(commandlist))

RECURSIVE buildFeedbackResults_dropNested(_, _, _, _)
\* a _buildFeedbackResults whose recursive call collects into a fresh list
\* that is thrown away
buildFeedbackResults_dropNested(rcvBuffer, commandlist, results, i) ==
    IF commandlist = <<>> THEN results
    ELSE LET cmd == Head(commandlist)
         IN  IF cmd.kind = "cmd"
             THEN buildFeedbackResults_dropNested(rcvBuffer, Tail(commandlist),
                      Append(results,
                             [by |-> cmd.name, at |-> i,
                              value |-> handle(cmd, Slice(rcvBuffer, i, i + readLen(cmd)))]),
                      i + readLen(cmd))
             ELSE buildFeedbackResults_dropNested(rcvBuffer, Tail(commandlist),
                      results, i)

RECURSIVE buildFeedbackResults(_, _, _, _)
\* U3._buildFeedbackResults / U6._buildFeedbackResults. A result records the
\* sub-command that produced it (by), the offset its slice started at (at)
\* and the decoded value. The recursive call on a nested list appends to
\* the same results list and its advance of i is local to it.
buildFeedbackResults(rcvBuffer, commandlist, results, i) ==
    IF commandlist = <<>> THEN results
    ELSE LET cmd == Head(commandlist)
         IN  IF cmd.kind = "cmd"
             THEN buildFeedbackResults(rcvBuffer, Tail(commandlist),
                      Append(results,
                             [by |-> cmd.name, at |-> i,
                              value |-> handle(cmd, Slice(rcvBuffer, i, i + readLen(cmd)))]),
                      i + readLen(cmd))
             ELSE buildFeedbackResults(rcvBuffer, Tail(commandlist),
                      buildFeedbackResults(rcvBuffer, cmd.items, results, i),
                      i)

RECURSIVE Flatten(_)
\* the sub-commands of a forest, left to right
Flatten(commandlist) ==
    IF commandlist = <<>> THEN <<>>
    ELSE LET cmd == Head(commandlist)
         IN  (IF cmd.kind = "cmd" THEN <<cmd>> ELSE Flatten(cmd.items))
             \o Flatten(Tail(commandlist))

(* The argument forests drawn: exactly n nodes, lists nested at most d deep *)
RECURSIVE ForestsOf(_, _)
RECURSIVE NodesOf(_, _)
NodesOf(n, d) ==
    IF n = 1
    THEN { Cmd(c) : c \in CmdNames } \cup (IF d > 0 THEN { List(<<>>) } ELSE {})
    ELSE IF d > 0 THEN { List(f) : f \in ForestsOf(n - 1, d - 1) } ELSE {}

ForestsOf(n, d) ==
    IF n = 0 THEN { <<>> }
    ELSE UNION { { <<h>> \o r : h \in NodesOf(k, d), r \in ForestsOf(n - k, d) }
                 : k \in 1..n }

ArgForests == UNION { ForestsOf(n, MaxDepth) : n \in 1..MaxNodes }

\* getFeedback(*([cmd] * n)): requests and responses around the 64-byte
\* limit. 19 AIN make a 64-byte request, 20 a longer one; 13 Counter make a
\* 62-byte response, 14 a longer one
LongRepeats == {13, 14, 19, 20}

LongArgs ==
    { [k \in 1..n |-> Cmd(c)] : c \in {"AIN", "Counter"}, n \in LongRepeats }

----------------------------------------------------------------------------
(* Device._checkCommandBytes: LabJackPython.py *)

checkCommandBytes_noChecksum(results, commandBytes) ==
    LET size == Len(commandBytes)
    IN  IF Len(results) = 0
        THEN Exc("LabJackException", "Got a zero length packet.")
        ELSE IF Len(results) >= 2 /\ At(results, 0) = 184 /\ At(results, 1) = 184
        THEN Exc("LabJackException", "Device detected a bad checksum.")
        ELSE IF Slice(results, 1, size + 1) # commandBytes
        THEN Exc("LabJackException", "Got incorrect command bytes.")
        ELSE IF Len(results) < 7
        THEN Exc("IndexError", "list index out of range")
        ELSE IF At(results, 6) # 0
        THEN [Exc("LowlevelErrorException", "The device returned an error")
                 EXCEPT !.code = At(results, 6)]
        ELSE NoExc

checkCommandBytes_statusFirst(results, commandBytes) ==
    LET size == Len(commandBytes)
    IN  IF Len(results) = 0
        THEN Exc("LabJackException", "Got a zero length packet.")
        ELSE IF Len(results) >= 2 /\ At(results, 0) = 184 /\ At(results, 1) = 184
        THEN Exc("LabJackException", "Device detected a bad checksum.")
        ELSE IF Slice(results, 1, size + 1) # commandBytes
        THEN Exc("LabJackException", "Got incorrect command bytes.")
        ELSE IF Len(results) < 7
        THEN Exc("IndexError", "list index out of range")
        ELSE IF At(results, 6) # 0
        THEN [Exc("LowlevelErrorException", "The device returned an error")
                 EXCEPT !.code = At(results, 6)]
        ELSE IF ~verifyChecksum(results)
        THEN Exc("LabJackException", "Checksum was incorrect.")
        ELSE NoExc

checkCommandBytes(results, commandBytes) ==
    LET size == Len(commandBytes)
    IN  IF Len(results) = 0
        THEN Exc("LabJackException", "Got a zero length packet.")
        ELSE IF Len(results) >= 2 /\ At(results, 0) = 184 /\ At(results, 1) = 184
        THEN Exc("LabJackException", "Device detected a bad checksum.")
        ELSE IF Slice(results, 1, size + 1) # commandBytes
        THEN Exc("LabJackException", "Got incorrect command bytes.")
        ELSE IF Len(results) < 6
        THEN Exc("IndexError", "list index out of range")
        ELSE IF ~verifyChecksum(results)
        THEN Exc("LabJackException", "Checksum was incorrect.")
        ELSE IF Len(results) < 7
        THEN Exc("IndexError", "list index out of range")
        ELSE IF At(results, 6) # 0
        THEN [Exc("LowlevelErrorException", "The device returned an error")
                 EXCEPT !.code = At(results, 6)]
        ELSE NoExc

----------------------------------------------------------------------------
(* The device's answer to a feedback request (the transport boundary)       *)

\* response data byte at code offset j: every offset carries its own value
DataByte(j) == j

\* a well-formed feedback response of rdLen bytes with the given status
\* byte and error-frame byte
FeedbackResponse(rdLen, errcode, errframe) ==
    setChecksum([k \in 1..rdLen |->
        CASE k = 2 -> 248
          [] k = 3 -> (rdLen \div 2) - 3
          [] k = 7 -> errcode
          [] k = 8 -> errframe
          [] k >= 10 -> DataByte(k - 1)
          [] OTHER -> 0])

\* the status byte of a failed feedback command (48, STREAM_IS_ACTIVE)
DevErrCode == 48

\* what read() gives back: kinds of answer, and for a device error the
\* 1-based frame of the failing sub-command (0: none named)
RespKinds == {"ok", "deverr", "badsum", "badsum16", "badsumdeverr", "badecho",
              "badcmd3", "b8", "short1", "short5", "shortlast", "empty", "raise"}

Responses(ncmds) ==
    { [kind |-> k, frame |-> 0] : k \in RespKinds \ {"deverr"} }
    \cup { [kind |-> "deverr", frame |-> f] : f \in 0..ncmds }

ReadResult(resp, rdLen) ==
    CASE resp.kind = "ok" -> FeedbackResponse(rdLen, 0, 0)
      [] resp.kind = "deverr" -> FeedbackResponse(rdLen, DevErrCode, resp.frame)
      [] resp.kind = "badsum" ->
            LET r == FeedbackResponse(rdLen, 0, 0)
            IN  [r EXCEPT ![1] = (r[1] + 1) % 256]
      [] resp.kind = "badsum16" ->
            LET r == FeedbackResponse(rdLen, 0, 0)
            IN  [r EXCEPT ![5] = (r[5] + 1) % 256]
      [] resp.kind = "badsumdeverr" ->
            LET r == FeedbackResponse(rdLen, DevErrCode, 1)
            IN  [r EXCEPT ![1] = (r[1] + 1) % 256]
      [] resp.kind = "badecho" ->
            setChecksum([FeedbackResponse(rdLen, 0, 0) EXCEPT ![2] = 249])
      [] resp.kind = "badcmd3" ->
            setChecksum([FeedbackResponse(rdLen, 0, 0) EXCEPT ![4] = 1])
      [] resp.kind = "b8" -> <<184, 184>>
      [] resp.kind = "short1" -> SubSeq(FeedbackResponse(rdLen, 0, 0), 1, 1)
      [] resp.kind = "short5" -> SubSeq(FeedbackResponse(rdLen, 0, 0), 1, 5)
      [] resp.kind = "shortlast" ->
            SubSeq(FeedbackResponse(rdLen, 0, 0), 1, rdLen - 1)
      [] OTHER -> <<>>

----------------------------------------------------------------------------
(* getFeedback: u3.py, u6.py *)

\* sendBuffer and readLen as getFeedback assembles them: the 7-byte header,
\* the sub-commands, padding to even length, the length byte
Assembled(dev, commandlist) ==
    LET built == buildBuffer(dev, <<0, 248, 0, 0, 0, 0, 0>>, 9, commandlist)
        padded == IF Len(built[1]) % 2 = 1 THEN built[1] \o <<0>> ELSE built[1]
    IN  [sendBuffer |-> [padded EXCEPT ![3] = (Len(padded) \div 2) - 3],
         readLen |-> IF built[2] % 2 = 1 THEN built[2] + 1 ELSE built[2]]

\* the first handle() that is given too short a slice raises: IndexError
\* from input[k], struct.error from unpack
HandleRaises(commandlist, rcvBuffer) ==
    LET res == buildFeedbackResults(rcvBuffer, commandlist, <<>>, 9)
    IN  \E k \in DOMAIN res : res[k].value = -2

HandleExc(commandlist, rcvBuffer) ==
    LET res == buildFeedbackResults(rcvBuffer, commandlist, <<>>, 9)
        k == CHOOSE j \in DOMAIN res :
                 res[j].value = -2 /\ \A h \in 1..(j - 1) : res[h].value # -2
    IN  IF res[k].by = "Counter"
        THEN Exc("struct.error", "unpack requires a string argument of length 4")
        ELSE Exc("IndexError", "list index out of range")

\* the sub-command the U3 names when the device reports an error
Culprit(commandlist, rcvBuffer) ==
    LET seq == IF commandlist[1].kind = "list" THEN commandlist[1].items
               ELSE commandlist
        k == At(rcvBuffer, 7) - 1
    IN  IF k >= Len(seq) \/ k < 0 - Len(seq)
        THEN Exc("IndexError", "list index out of range")
        ELSE [Exc("LowlevelErrorException", "This Command returned an error")
                 EXCEPT !.code = At(rcvBuffer, 6),
                        !.culprit = IF k >= 0 THEN seq[k + 1]
                                    ELSE seq[Len(seq) + k + 1]]

\* the outcome of one call
Outcome(sent, rdLen, rcv, results, exc) ==
    [sent |-> sent, readLen |-> rdLen, rcv |-> rcv, results |-> results, exc |-> exc]

TooLong_never(n) == FALSE

\* len(...) > MAX_USB_PACKET_LENGTH
TooLong(n) == n > MAX_USB_PACKET_LENGTH

U3getFeedback(commandlist, resp) ==
    LET a == Assembled("U3", commandlist)
        sent == setChecksum(a.sendBuffer)
        rcv == ReadResult(resp, a.readLen)
        chk == checkCommandBytes(rcv, <<248>>)
    IN  IF TooLong(Len(a.sendBuffer))
        THEN Outcome(<<>>, -1, <<>>, <<>>,
                     Exc("LabJackException", "bigger than 64 bytes"))
        ELSE IF TooLong(a.readLen)
        THEN Outcome(<<>>, -1, <<>>, <<>>,
                     Exc("LabJackException", "response greater than 64 bytes"))
        ELSE IF resp.kind = "raise"
        THEN Outcome(sent, a.readLen, <<>>, <<>>,
                     Exc("LabJackException", "Exodriver returned error number"))
        ELSE IF chk.type = "LowlevelErrorException"
        THEN Outcome(sent, a.readLen, rcv, <<>>, Culprit(commandlist, rcv))
        ELSE IF chk.type # "none"
        THEN Outcome(sent, a.readLen, rcv, <<>>, chk)
        ELSE IF At(rcv, 3) # 0
        THEN Outcome(sent, a.readLen, rcv, <<>>,
                     Exc("LabJackException", "Got incorrect command bytes"))
        ELSE IF HandleRaises(commandlist, rcv)
        THEN Outcome(sent, a.readLen, rcv, <<>>, HandleExc(commandlist, rcv))
        ELSE Outcome(sent, a.readLen, rcv,
                     buildFeedbackResults(rcv, commandlist, <<>>, 9), NoExc)

U6getFeedback(commandlist, resp) ==
    LET a == Assembled("U6", commandlist)
        sent == setChecksum(a.sendBuffer)
        rcv == ReadResult(resp, a.readLen)
    IN  IF resp.kind = "raise"
        THEN Outcome(sent, a.readLen, <<>>, <<>>,
                     Exc("LabJackException", "Exodriver returned error number"))
        ELSE IF HandleRaises(commandlist, rcv)
        THEN Outcome(sent, a.readLen, rcv, <<>>, HandleExc(commandlist, rcv))
        ELSE Outcome(sent, a.readLen, rcv,
                     buildFeedbackResults(rcv, commandlist, <<>>, 9), NoExc)

----------------------------------------------------------------------------
(* Feedback specification: one getFeedback call on a U3 or a U6 *)

InitFeedback ==
    /\ fbDev \in {"U3", "U6"}
    /\ fbArgs \in ArgForests \cup LongArgs
    /\ fbPc = "call"
    /\ fbSent = <<>>
    /\ fbReadLen = -1
    /\ fbRcv = <<>>
    /\ fbResults = <<>>
    /\ fbExc = NoExc
    /\ CsIdle
    /\ StIdle
    /\ LkIdle
    /\ ExIdle
    /\ MbIdle
    /\ U6Idle
    /\ AinIdle

Finish(out) ==
    /\ fbSent' = out.sent
    /\ fbReadLen' = out.readLen
    /\ fbRcv' = out.rcv
    /\ fbResults' = out.results
    /\ fbExc' = out.exc
    /\ fbPc' = IF out.exc.type = "none" THEN "returned" ELSE "raised"
    /\ UNCHANGED <<fbDev, fbArgs>>
    /\ UNCHANGED fbRest

U3GetFeedbackCall ==
    /\ fbPc = "call"
    /\ fbDev = "U3"
    /\ \E resp \in Responses(Len(Flatten(fbArgs))) :
          Finish(U3getFeedback(fbArgs, resp))

U6GetFeedbackCall ==
    /\ fbPc = "call"
    /\ fbDev = "U6"
    /\ \E resp \in Responses(Len(Flatten(fbArgs))) :
          Finish(U6getFeedback(fbArgs, resp))

NextFeedback ==
    \/ U3GetFeedbackCall
    \/ U6GetFeedbackCall

SpecFeedback == InitFeedback /\ [][NextFeedback]_vars

----------------------------------------------------------------------------
(* U6 AIN24 and AIN24AR requests: u6.py                                     *)
(* The sub-command is constructed from its arguments and handed to          *)
(* U6.getFeedback on its own.                                               *)

\* validChannels = range(144)
validChannels == 0..143

\* AIN24.__init__: byte2 = ((GainIndex & 0xf) << 4) + (ResolutionIndex & 0xf),
\* byte3 = (int(Differential) << 8) + SettlingFactor
AIN24(PositiveChannel, ResolutionIndex, GainIndex, SettlingFactor, Differential) ==
    LET byte2 == ((GainIndex % 16) * 16) + (ResolutionIndex % 16)
        byte3 == ((IF Differential THEN 1 ELSE 0) * 256) + SettlingFactor
    IN  [kind |-> "cmd", name |-> "AIN24", items |-> <<>>,
         cmdBytes |-> <<2, PositiveChannel, byte2, byte3>>]

\* AIN24AR.__init__
AIN24AR(PositiveChannel, ResolutionIndex, GainIndex, SettlingFactor, Differential) ==
    LET byte2 == ((GainIndex % 16) * 16) + (ResolutionIndex % 16)
        byte3 == ((IF Differential THEN 1 ELSE 0) * 256) + SettlingFactor
    IN  [kind |-> "cmd", name |-> "AIN24AR", items |-> <<>>,
         cmdBytes |-> <<3, PositiveChannel, byte2, byte3>>]

\* the constructor calls drawn: first, last and first invalid channel, the
\* ends of the documented ranges of the other arguments
Ain24Calls ==
    [class : {"AIN24", "AIN24AR"},
     PositiveChannel : {0, 143, 144},
     ResolutionIndex : {0, 13},
     GainIndex : {0, 15},
     SettlingFactor : {0, 4},
     Differential : BOOLEAN]

Construct(call) ==
    IF call.class = "AIN24"
    THEN AIN24(call.PositiveChannel, call.ResolutionIndex, call.GainIndex,
               call.SettlingFactor, call.Differential)
    ELSE AIN24AR(call.PositiveChannel, call.ResolutionIndex, call.GainIndex,
                 call.SettlingFactor, call.Differential)

InitAIN24 ==
    /\ fbDev = "U6"
    /\ fbArgs \in { <<call>> : call \in Ain24Calls }
    /\ fbPc = "construct"
    /\ fbSent = <<>>
    /\ fbReadLen = -1
    /\ fbRcv = <<>>
    /\ fbResults = <<>>
    /\ fbExc = NoExc
    /\ CsIdle
    /\ StIdle
    /\ LkIdle
    /\ ExIdle
    /\ MbIdle
    /\ U6Idle
    /\ AinIdle

\* the constructor raises for a channel outside validChannels, before any
\* getFeedback call
AIN24Construct ==
    /\ fbPc = "construct"
    /\ IF fbArgs[1].PositiveChannel \in validChannels
       THEN /\ fbArgs' = <<Construct(fbArgs[1])>>
            /\ fbPc' = "call"
            /\ UNCHANGED fbExc
       ELSE /\ fbExc' = Exc("LabJackException", "Invalid Positive Channel specified")
            /\ fbPc' = "raised"
            /\ UNCHANGED fbArgs
    /\ UNCHANGED <<fbDev, fbSent, fbReadLen, fbRcv, fbResults>>
    /\ UNCHANGED fbRest

NextAIN24 ==
    \/ AIN24Construct
    \/ U6GetFeedbackCall

SpecAIN24 == InitAIN24 /\ [][NextAIN24]_vars

----------------------------------------------------------------------------
(* The transport and the hardware behind it                                 *)

Min(a, b) == IF a < b THEN a ELSE b
Max(a, b) == IF a > b THEN a ELSE b

\* how one write()/read() exchange goes: "ok"; write() raises because fewer
\* bytes were written (the command does not reach the hardware); read()
\* raises (errcheck, the command was executed); read() returns no byte
Transports == {"ok", "writefail", "readfail", "empty"}

\* device error codes of ERROR_TO_STRING_DICT
STREAM_IS_ACTIVE == 48
STREAM_TABLE_INVALID == 49
STREAM_NOT_RUNNING == 52
STREAM_AUTORECOVER_ACTIVE == 59
STREAM_AUTORECOVER_REPORT == 60

\* the status byte the hardware answers each stream command with
HwConfigCode == IF hwStreaming THEN STREAM_IS_ACTIVE ELSE 0
HwStartCode ==
    IF hwStreaming THEN STREAM_IS_ACTIVE
    ELSE IF ~hwConfigured THEN STREAM_TABLE_INVALID ELSE 0
HwStopCode == IF hwStreaming THEN 0 ELSE STREAM_NOT_RUNNING

\* the hardware executes a command that reached it
HwConfig(reached, spp) ==
    IF reached /\ HwConfigCode = 0
    THEN /\ hwConfigured' = TRUE
         /\ hwSamplesPerPacket' = spp
         /\ UNCHANGED <<hwStreaming, hwCounter>>
    ELSE UNCHANGED hwVars

HwStart(reached) ==
    IF reached /\ HwStartCode = 0
    THEN /\ hwStreaming' = TRUE
         /\ hwCounter' = 0
         /\ UNCHANGED <<hwConfigured, hwSamplesPerPacket>>
    ELSE UNCHANGED hwVars

HwStop(reached) ==
    IF reached /\ HwStopCode = 0
    THEN /\ hwStreaming' = FALSE
         /\ UNCHANGED <<hwConfigured, hwSamplesPerPacket, hwCounter>>
    ELSE UNCHANGED hwVars

\* the 4-byte answer to StreamStart (0xA8) and StreamStop (0xB0)
ShortResponse(cmdByte, code) == setChecksum8(<<0, cmdByte, code, 0>>, 4)

\* the 8-byte answer to StreamConfig
ConfigResponse(code) == setChecksum(<<0, 248, 1, 17, 0, 0, code, 0>>)

\* what read() returns for the exchange, <<>> when it returns nothing
ReadOf(t, response) == IF t = "ok" THEN response ELSE <<>>

TransportExc(t) ==
    IF t = "writefail"
    THEN Exc("LabJackException", "Could only write some of the bytes.")
    ELSE Exc("LabJackException", "Exodriver returned error number")

----------------------------------------------------------------------------
(* U3.streamConfig: u3.py *)

\* SampleFrequency = None
None == -1

\* the channel tables and rate arguments streamConfig is called with
ChanArgs ==
    { [NumChannels |-> 2, PChannels |-> <<0, 5>>, NChannels |-> <<31, 31>>],
      [NumChannels |-> 3, PChannels |-> <<5, 0, 30>>, NChannels |-> <<31, 31, 31>>],
      [NumChannels |-> 2, PChannels |-> <<0>>, NChannels |-> <<31>>],
      [NumChannels |-> 1, PChannels |-> <<0>>, NChannels |-> <<31, 31>>] }

RateArgs ==
    LET Rate(spp, si, div, sf) ==
            [SamplesPerPacket |-> spp, ScanInterval |-> si, DivideClockBy256 |-> div,
             SampleFrequency |-> sf, InternalStreamClockFrequency |-> 0,
             Resolution |-> 3]
    IN  { Rate(26, 70000, TRUE, None),   \* both clamped from above, 1 packet a read
          Rate(0, 0, FALSE, None),       \* both clamped from below, 48 packets
          Rate(-3, -7, FALSE, None),     \* negative, clamped from below
          Rate(2, 3000, TRUE, None),     \* 2 packets a read
          Rate(1, 5000, TRUE, None),     \* 3 packets a read
          Rate(25, 1, FALSE, 10),        \* SampleFrequency below 25
          Rate(25, 1, FALSE, 2000),      \* SampleFrequency of 1000 or more
          Rate(25, 1, FALSE, 0) }        \* SampleFrequency 0

\* a streamConfig that does not cap SamplesPerPacket at 25
Derived_noUpperClamp(rate) ==
    LET sf == rate.SampleFrequency
        spp0 == IF sf # None /\ sf < 1000 /\ sf < 25 THEN sf
                ELSE rate.SamplesPerPacket
        div == IF sf # None THEN sf < 1000 ELSE rate.DivideClockBy256
        si0 == IF sf = None THEN rate.ScanInterval
               ELSE IF sf < 1000 THEN 15625 \div sf ELSE 4000000 \div sf
        base == IF rate.InternalStreamClockFrequency = 1
                THEN (IF div THEN 187500 ELSE 48000000)
                ELSE (IF div THEN 15625 ELSE 4000000)
        si == Max(Min(si0, 65535), 1)
        spp == Max(spp0, 1)
    IN  [ScanInterval |-> si, SamplesPerPacket |-> spp, DivideClockBy256 |-> div,
         packetsPerRequest |-> Min(Max(1, base \div (si * spp)), 48)]

\* the values streamConfig derives from its arguments (U3 and U6 alike)
Derived(rate) ==
    LET sf == rate.SampleFrequency
        spp0 == IF sf # None /\ sf < 1000 /\ sf < 25 THEN sf
                ELSE rate.SamplesPerPacket
        div == IF sf # None THEN sf < 1000 ELSE rate.DivideClockBy256
        si0 == IF sf = None THEN rate.ScanInterval
               ELSE IF sf < 1000 THEN 15625 \div sf ELSE 4000000 \div sf
        base == IF rate.InternalStreamClockFrequency = 1
                THEN (IF div THEN 187500 ELSE 48000000)
                ELSE (IF div THEN 15625 ELSE 4000000)
        si == Max(Min(si0, 65535), 1)
        spp == Min(Max(spp0, 1), 25)
    IN  [ScanInterval |-> si, SamplesPerPacket |-> spp, DivideClockBy256 |-> div,
         packetsPerRequest |-> Min(Max(1, base \div (si * spp)), 48)]

\* the StreamConfig command, before write() sets its checksums
ConfigCommand(chan, rate) ==
    LET d == Derived(rate)
        n == chan.NumChannels
    IN  [k \in 1..(12 + (n * 2)) |->
          CASE k = 2 -> 248
            [] k = 3 -> n + 3
            [] k = 4 -> 17
            [] k = 7 -> n
            [] k = 8 -> d.SamplesPerPacket
            [] k = 10 -> ((rate.InternalStreamClockFrequency % 2) * 8)
                          + (IF d.DivideClockBy256 THEN 4 ELSE 0)
                          + (rate.Resolution % 4)
            [] k = 11 -> d.ScanInterval % 256
            [] k = 12 -> d.ScanInterval \div 256
            [] k >= 13 /\ (k - 13) % 2 = 0 -> chan.PChannels[((k - 13) \div 2) + 1]
            [] k >= 13 /\ (k - 13) % 2 = 1 -> chan.NChannels[((k - 13) \div 2) + 1]
            [] OTHER -> 0]

\* the StreamConfig command of the U6: u6.py. ChannelNumbers and
\* ChannelOptions are chan.PChannels and chan.NChannels; SettlingFactor 0
U6ConfigCommand(chan, rate) ==
    LET d == Derived(rate)
        n == chan.NumChannels
    IN  [k \in 1..(14 + (n * 2)) |->
          CASE k = 2 -> 248
            [] k = 3 -> n + 4
            [] k = 4 -> 17
            [] k = 7 -> n
            [] k = 8 -> rate.Resolution
            [] k = 9 -> d.SamplesPerPacket
            [] k = 12 -> ((rate.InternalStreamClockFrequency % 2) * 8)
                          + (IF d.DivideClockBy256 THEN 2 ELSE 0)
            [] k = 13 -> d.ScanInterval % 256
            [] k = 14 -> d.ScanInterval \div 256
            [] k >= 15 /\ (k - 15) % 2 = 0 -> chan.PChannels[((k - 15) \div 2) + 1]
            [] k >= 15 /\ (k - 15) % 2 = 1 -> chan.NChannels[((k - 15) \div 2) + 1]
            [] OTHER -> 0]

\* what U6.streamConfig raises before any I/O
U6ConfigArgExc(chan, rate) ==
    IF chan.NumChannels # Len(chan.PChannels) \/ chan.NumChannels # Len(chan.NChannels)
    THEN Exc("LabJackException",
             "NumChannels must match length of ChannelNumbers and ChannelOptions")
    ELSE IF rate.SampleFrequency = 0
    THEN Exc("ZeroDivisionError", "integer division or modulo by zero")
    ELSE NoExc

\* what streamConfig raises before any I/O, NoExc when it goes on
ConfigArgExc(chan, rate) ==
    IF Len(chan.PChannels) # chan.NumChannels
    THEN Exc("LabJackException", "Length of PChannels didn't match NumChannels")
    ELSE IF Len(chan.NChannels) # chan.NumChannels
    THEN Exc("LabJackException", "Length of NChannels didn't match NumChannels")
    ELSE IF rate.SampleFrequency = 0
    THEN Exc("ZeroDivisionError", "integer division or modulo by zero")
    ELSE NoExc

\* what the exchange of _writeRead(command, 8, [0xF8, 0x01, 0x11]) raises
ConfigExchangeExc(t, response) ==
    IF t \in {"writefail", "readfail"} THEN TransportExc(t)
    ELSE checkCommandBytes(ReadOf(t, response), <<248, 1, 17>>)

\* an operation that reads no stream data and converts none
NoStreamData ==
    /\ lastRet' = NoRet
    /\ lastAttrib' = <<>>
    /\ lastPkts' = <<>>
    /\ lastRead' = "none"
    /\ prevCounter' = -1

ConfigStored_always(exc) == TRUE

\* the attributes are assigned after _writeRead has returned
ConfigStored(exc) == exc = NoExc

StreamConfigVia(chan, rate, t) ==
        LET argExc == IF deviceName = "U6" THEN U6ConfigArgExc(chan, rate)
                      ELSE ConfigArgExc(chan, rate)
            exc == IF argExc # NoExc THEN argExc
                   ELSE ConfigExchangeExc(t, ConfigResponse(HwConfigCode))
            d == Derived(rate)
            command == IF deviceName = "U6" THEN U6ConfigCommand(chan, rate)
                       ELSE ConfigCommand(chan, rate)
        IN  /\ lastOp' = "streamConfig"
            /\ lastExc' = exc
            /\ lastSent' = IF argExc # NoExc THEN <<>>
                           ELSE <<setChecksum(command)>>
            /\ HwConfig(argExc = NoExc /\ t # "writefail", d.SamplesPerPacket)
            /\ IF ConfigStored(exc)
               THEN /\ streamSamplesPerPacket' = d.SamplesPerPacket
                    /\ streamChannelNumbers' = chan.PChannels
                    /\ streamNegChannels' = IF deviceName = "U6" THEN streamNegChannels
                                            ELSE chan.NChannels
                    /\ streamConfiged' = TRUE
                    /\ packetsPerRequest' = d.packetsPerRequest
               ELSE UNCHANGED <<streamSamplesPerPacket, streamChannelNumbers,
                                streamNegChannels, streamConfiged, packetsPerRequest>>
            /\ NoStreamData
            /\ UNCHANGED <<deviceName, streamStarted, streamPacketOffset>>
            /\ UNCHANGED <<genVars, histVars>>
            /\ UNCHANGED stRest

\* the transport matters only to a call that gets as far as its exchange
StreamConfig ==
    \E chan \in ChanArgs, rate \in RateArgs :
        \E t \in (IF ConfigArgExc(chan, rate) = NoExc THEN Transports ELSE {"ok"}) :
            StreamConfigVia(chan, rate, t)

----------------------------------------------------------------------------
(* Device.streamStart, Device.streamStop: LabJackPython.py *)

StartStateExc_configuredOnly ==
    IF ~streamConfiged
    THEN Exc("LabJackException", "Stream must be configured before it can be started.")
    ELSE NoExc

\* what streamStart raises before any I/O
StartStateExc ==
    IF ~streamConfiged
    THEN Exc("LabJackException", "Stream must be configured before it can be started.")
    ELSE IF streamStarted
    THEN Exc("LabJackException", "Stream already started.")
    ELSE NoExc

ShortExchangeExc_ignoreStatus(t, response, what) ==
    IF t \in {"writefail", "readfail"} THEN TransportExc(t)
    ELSE IF Len(ReadOf(t, response)) < 3
    THEN Exc("IndexError", "list index out of range")
    ELSE NoExc

\* _writeRead(command, 4, [], False, False, False) and the test of results[2]
ShortExchangeExc(t, response, what) ==
    IF t \in {"writefail", "readfail"} THEN TransportExc(t)
    ELSE IF Len(ReadOf(t, response)) < 3
    THEN Exc("IndexError", "list index out of range")
    ELSE IF At(ReadOf(t, response), 2) # 0
    THEN [Exc("LowlevelErrorException", what)
             EXCEPT !.code = At(ReadOf(t, response), 2)]
    ELSE NoExc

StartStored_onReply(exc) == exc.type # "LabJackException"

\* streamPacketOffset and streamStarted are assigned after the test of
\* results[2]
StartStored(exc) == exc = NoExc

StreamStartVia(t) ==
        LET exc == IF StartStateExc # NoExc THEN StartStateExc
                   ELSE ShortExchangeExc(t, ShortResponse(168, HwStartCode),
                                         "StreamStart returned an error")
        IN  /\ lastOp' = "streamStart"
            /\ lastExc' = exc
            /\ lastSent' = IF StartStateExc # NoExc THEN <<>> ELSE << <<168, 168>> >>
            /\ HwStart(StartStateExc = NoExc /\ t # "writefail")
            /\ packetsSeen' =
                  IF StartStateExc = NoExc /\ t # "writefail" /\ HwStartCode = 0
                  THEN 0 ELSE packetsSeen
            /\ NoStreamData
            /\ IF StartStored(exc)
               THEN /\ streamPacketOffset' = 0
                    /\ streamStarted' = TRUE
                    /\ sampleCount' = 0
               ELSE UNCHANGED <<streamPacketOffset, streamStarted, sampleCount>>
            /\ UNCHANGED <<deviceName, streamConfiged, streamSamplesPerPacket,
                           streamChannelNumbers, streamNegChannels, packetsPerRequest>>
            /\ UNCHANGED genVars
            /\ UNCHANGED stRest

StreamStart ==
    \E t \in (IF StartStateExc = NoExc THEN Transports ELSE {"ok"}) :
        StreamStartVia(t)

StreamStopVia(t) ==
        LET exc == ShortExchangeExc(t, ShortResponse(176, HwStopCode),
                                    "StreamStop returned an error")
        IN  /\ lastOp' = "streamStop"
            /\ lastExc' = exc
            /\ lastSent' = << <<176, 176>> >>
            /\ HwStop(t # "writefail")
            /\ streamStarted' = IF exc = NoExc THEN FALSE ELSE streamStarted
            /\ UNCHANGED <<deviceName, streamConfiged, streamPacketOffset,
                           streamSamplesPerPacket, streamChannelNumbers,
                           streamNegChannels, packetsPerRequest>>
            /\ NoStreamData
            /\ UNCHANGED <<genVars, histVars>>
            /\ UNCHANGED stRest

StreamStop == \E t \in Transports : StreamStopVia(t)

----------------------------------------------------------------------------
(* Stream packets, as the hardware builds them *)

\* what one packet carries: its error byte and whether the hardware dropped
\* the packet before it (its PacketCounter skips one)
PacketKinds == [err : {0, STREAM_AUTORECOVER_ACTIVE, STREAM_AUTORECOVER_REPORT},
                gap : BOOLEAN]

\* bytes 6..9 of a packet: the count of dropped samples in a packet that
\* reports an autorecover, the timestamp in the others
DroppedField == <<2, 1, 0, 0>>
TimestampField == <<7, 0, 0, 0>>

\* the two bytes of the i-th sample (from 0) of the packet numbered counter
SampleBytes(counter, i) == <<(counter + i) % 256, i % 2>>

StreamPacket(spp, counter, err) ==
    setChecksum([k \in 1..(14 + (spp * 2)) |->
        CASE k = 2 -> 249
          [] k = 3 -> 4 + spp
          [] k = 4 -> 192
          [] k \in 7..10 -> IF err = 0 THEN TimestampField[k - 6]
                            ELSE DroppedField[k - 6]
          [] k = 11 -> counter
          [] k = 12 -> err
          [] k \in 13..(12 + (spp * 2)) ->
                SampleBytes(counter, (k - 13) \div 2)[((k - 13) % 2) + 1]
          [] OTHER -> 0])

RECURSIVE CountersOf(_, _)
\* the PacketCounter of each packet of kinds, the hardware's counter being c
CountersOf(kinds, c) ==
    IF kinds = <<>> THEN <<>>
    ELSE LET mine == (c + (IF Head(kinds).gap THEN 1 ELSE 0)) % 256
         IN  <<mine>> \o CountersOf(Tail(kinds), (mine + 1) % 256)

RECURSIVE Concat(_)
Concat(seqs) == IF seqs = <<>> THEN <<>> ELSE Head(seqs) \o Concat(Tail(seqs))

\* the packets of one read, with what the hardware put in each
PacketsOf(kinds) ==
    LET cs == CountersOf(kinds, hwCounter)
    IN  [k \in 1..Len(kinds) |->
            [counter |-> cs[k], err |-> kinds[k].err, gap |-> kinds[k].gap]]

BytesOf(pkts) ==
    Concat([k \in 1..Len(pkts) |->
               StreamPacket(hwSamplesPerPacket, pkts[k].counter, pkts[k].err)])

----------------------------------------------------------------------------
(* U3.processStreamData and its helpers *)

\* Device.breakupPackets
breakupPackets(packets, numBytesPerPacket) ==
    [k \in 1..(Len(packets) \div numBytesPerPacket) |->
        Slice(packets, (k - 1) * numBytesPerPacket, k * numBytesPerPacket)]

\* Device.samplesFromPacket
samplesFromPacket(packet) ==
    LET l == Slice(packet, 12, Len(packet) - 2)
    IN  [k \in 1..((Len(l) + 1) \div 2) |-> Slice(l, (k - 1) * 2, k * 2)]

\* hvCal is the channel whose calData entries hvAIN<n>Slope and
\* hvAIN<n>Offset the conversion uses when calData is loaded, -1 when it
\* uses the low-voltage entries.
\* U3.binaryToCalibratedAnalogVoltage without calibration data, the reading
\* being nano * 1e-9 + milli * 1e-3 volts (the differential one rounded down
\* to 10 microvolts); kind "raise" is its exception
binaryToCalibratedAnalogVoltage(bits, isLowVoltage, isSingleEnded, isSpecialSetting, channelNumber) ==
    IF isLowVoltage
    THEN IF isSingleEnded /\ ~isSpecialSetting
         THEN [kind |-> "lvSE", nano |-> bits * 37231, milli |-> 0, hvCal |-> -1]
         ELSE IF isSpecialSetting
         THEN [kind |-> "lvSpecial", nano |-> ((bits * 488000) \div 65536) * 10000,
               milli |-> 0, hvCal |-> -1]
         ELSE [kind |-> "lvDiff", nano |-> ((bits * 488000) \div 65536) * 10000,
               milli |-> -2440, hvCal |-> -1]
    ELSE IF isSingleEnded /\ ~isSpecialSetting
         THEN [kind |-> "hvSE", nano |-> bits * 314000, milli |-> -10300,
               hvCal |-> channelNumber]
         ELSE IF isSpecialSetting
         THEN [kind |-> "hvSpecial", nano |-> ((bits * 3040000) \div 65536) * 10000,
               milli |-> 0, hvCal |-> channelNumber]
         ELSE [kind |-> "raise", nano |-> 0, milli |-> 0, hvCal |-> -1]

EndsWithHV(name) == name \in {"U3-HV"}

RECURSIVE processSamples(_, _, _)
\* the loop body of processStreamData over the samples left, from the cursor
\* offset on, with the readings appended so far
processSamples(samples, offset, acc) ==
    IF samples = <<>> THEN [offset |-> offset, attrib |-> acc, exc |-> NoExc]
    ELSE LET off == IF offset >= Len(streamChannelNumbers) THEN 0 ELSE offset
             sample == Head(samples)
         IN  IF off >= Len(streamNegChannels)
             THEN [offset |-> off, attrib |-> acc,
                   exc |-> Exc("IndexError", "list index out of range")]
             ELSE LET singleEnded == streamNegChannels[off + 1] = 31
                      value == sample[1] + (sample[2] * 256)
                      chan == streamChannelNumbers[off + 1]
                      lvChannel == ~(EndsWithHV(deviceName) /\ chan < 4)
                      reading == binaryToCalibratedAnalogVoltage(value, lvChannel,
                                                                 singleEnded, FALSE, 0)
                  IN  IF reading.kind = "raise"
                      THEN [offset |-> off, attrib |-> acc,
                            exc |-> Exc("Exception",
                                "Can't do differential on high voltage channels")]
                      ELSE processSamples(Tail(samples), off + 1,
                               Append(acc, [chan |-> chan, value |-> reading]))

processStreamData_resetCursor(result, numBytes) ==
    processSamples(Concat([k \in 1..Len(breakupPackets(result, numBytes)) |->
                              samplesFromPacket(breakupPackets(result, numBytes)[k])]),
                   0, <<>>)

processStreamData(result, numBytes) ==
    processSamples(Concat([k \in 1..Len(breakupPackets(result, numBytes)) |->
                              samplesFromPacket(breakupPackets(result, numBytes)[k])]),
                   streamPacketOffset, <<>>)

\* the AINi entries of the dictionary processStreamData returns
AinsOf(attrib) ==
    LET ValueOf(a) == a.value
        RECURSIVE Pick(_, _)
        Pick(as, c) ==
            IF as = <<>> THEN <<>>
            ELSE (IF Head(as).chan = c THEN <<Head(as).value>> ELSE <<>>)
                     \o Pick(Tail(as), c)
    IN  [c \in {attrib[k].chan : k \in 1..Len(attrib)} |-> Pick(attrib, c)]

----------------------------------------------------------------------------
(* Device.streamData: LabJackPython.py *)

\* unpack('<I', b)
unpackI(b) == b[1] + (b[2] * 256) + (b[3] * 65536) + (b[4] * 16777216)

RECURSIVE SumSeq(_)
SumSeq(q) == IF q = <<>> THEN 0 ELSE Head(q) + SumSeq(Tail(q))

errorsOf(result, numBytes) ==
    Cardinality({i \in 0..((Len(result) \div numBytes) - 1) :
                    At(result, 11 + (i * numBytes)) # 0})

missedOf_anyAutorecover(result, numBytes) ==
    SumSeq([k \in 1..(Len(result) \div numBytes) |->
              IF At(result, 11 + ((k - 1) * numBytes)) \in {59, 60}
              THEN unpackI(Slice(result, 6 + ((k - 1) * numBytes),
                                 10 + ((k - 1) * numBytes)))
              ELSE 0])

missedOf(result, numBytes) ==
    SumSeq([k \in 1..(Len(result) \div numBytes) |->
              IF At(result, 11 + ((k - 1) * numBytes)) = 60
              THEN unpackI(Slice(result, 6 + ((k - 1) * numBytes),
                                 10 + ((k - 1) * numBytes)))
              ELSE 0])

firstPacketOf(result) == At(result, 10)

\* how LJUSB_StreamTO ends: it returns -1, 0, fewer bytes than asked for, or
\* fills the buffer
StreamReads == {"error", "nothing", "short", "full"}

\* the hardware sends packets only while it streams; a transfer fills the
\* buffer with whole packets when the hardware builds them of the size the
\* generator asks for
CanRead(how) ==
    CASE how \in {"error", "nothing"} -> TRUE
      [] how = "short" -> hwStreaming
      [] how = "full" -> /\ hwStreaming
                         /\ packetsPerRequest <= MaxPacketsPerRead
                         /\ packetsSeen + packetsPerRequest <= MaxPackets

\* streamData(convert): makes the generator; its body runs at the first next()
StreamDataCall ==
    \E convert \in BOOLEAN :
        /\ genPc' = "created"
        /\ genConvert' = convert
        /\ genNumBytes' = 0
        /\ lastOp' = "streamData"
        /\ lastExc' = NoExc
        /\ lastSent' = <<>>
        /\ NoStreamData
        /\ UNCHANGED <<objVars, hwVars, histVars>>
        /\ UNCHANGED stRest

\* next() on a generator that has raised
StreamDataNextDead ==
    /\ genPc = "dead"
    /\ lastOp' = "next"
    /\ lastExc' = Exc("StopIteration", "")
    /\ lastSent' = <<>>
    /\ NoStreamData
    /\ UNCHANGED <<objVars, genVars, hwVars, histVars>>
    /\ UNCHANGED stRest

\* the first next() of a generator made while the stream is not started
StreamDataNextNotStarted ==
    /\ genPc = "created"
    /\ ~streamStarted
    /\ genPc' = "dead"
    /\ lastOp' = "next"
    /\ lastExc' = Exc("LabJackException", "Please start streaming before reading.")
    /\ lastSent' = <<>>
    /\ NoStreamData
    /\ UNCHANGED <<genNumBytes, genConvert>>
    /\ UNCHANGED <<objVars, hwVars, histVars>>
    /\ UNCHANGED stRest

\* numBytes of the generator: computed when its body starts
NumBytesNow ==
    IF genPc = "created" THEN 14 + (streamSamplesPerPacket * 2) ELSE genNumBytes

AfterRead_returnOnEmpty(how) == "dead"

\* where the generator is after a read that gave no packets: suspended at
\* the yield None of an empty read, finished by the exception of a failed one
AfterRead(how) == IF how = "nothing" THEN "running" ELSE "dead"

\* next(): one turn of the while loop whose read() does not fill the buffer
StreamDataNextNoData ==
    \E how \in {"error", "nothing", "short"} :
        /\ genPc \in {"created", "running"}
        /\ genPc = "created" => streamStarted
        /\ CanRead(how)
        /\ genNumBytes' = NumBytesNow
        /\ genPc' = AfterRead(how)
        /\ lastOp' = "next"
        /\ lastExc' = CASE how = "error" ->
                              Exc("LabJackException", "Exodriver returned error number")
                        [] how = "short" ->
                              Exc("struct.error", "pack requires exactly N arguments")
                        [] OTHER -> NoExc
        /\ lastRet' = IF how = "nothing"
                      THEN Ret("None", 0, <<>>, 0, 0, 0, NoAins) ELSE NoRet
        /\ lastAttrib' = <<>>
        /\ lastPkts' = <<>>
        /\ lastRead' = CASE how = "error" -> "raised"
                         [] how = "nothing" -> "empty"
                         [] OTHER -> "partial"
        /\ prevCounter' = -1
        /\ lastSent' = <<>>
        /\ UNCHANGED genConvert
        /\ UNCHANGED <<objVars, hwVars, histVars>>
        /\ UNCHANGED stRest

\* next(): one turn of the while loop whose read() returns packets
StreamDataNextData ==
    /\ genPc \in {"created", "running"}
    /\ genPc = "created" => streamStarted
    /\ CanRead("full")
    /\ hwSamplesPerPacket = (NumBytesNow - 14) \div 2
    /\ \E kinds \in [1..packetsPerRequest -> PacketKinds] :
        LET numBytes == NumBytesNow
            pkts == PacketsOf(kinds)
            result == BytesOf(pkts)
            numPackets == Len(result) \div numBytes
            done == processStreamData(result, numBytes)
            raised == genConvert /\ done.exc # NoExc
        IN  /\ genNumBytes' = numBytes
            /\ hwCounter' = (pkts[Len(pkts)].counter + 1) % 256
            /\ packetsSeen' = packetsSeen + Len(pkts)
            /\ lastPkts' = pkts
            /\ lastRead' = "full"
            /\ prevCounter' = IF packetsSeen = 0 THEN -1
                              ELSE (hwCounter + 255) % 256
            /\ lastOp' = "next"
            /\ lastSent' = <<>>
            /\ IF genConvert
               THEN /\ streamPacketOffset' = done.offset
                    /\ lastAttrib' = done.attrib
                    /\ sampleCount' = sampleCount + Len(done.attrib)
               ELSE /\ lastAttrib' = <<>>
                    /\ UNCHANGED <<streamPacketOffset, sampleCount>>
            /\ genPc' = IF raised THEN "dead" ELSE "running"
            /\ lastExc' = IF raised THEN done.exc ELSE NoExc
            /\ lastRet' = IF raised THEN NoRet
                          ELSE Ret("dict", numPackets, result,
                                   errorsOf(result, numBytes),
                                   missedOf(result, numBytes),
                                   firstPacketOf(result),
                                   IF genConvert THEN AinsOf(done.attrib) ELSE NoAins)
            /\ UNCHANGED <<deviceName, streamConfiged, streamStarted,
                           streamSamplesPerPacket, streamChannelNumbers,
                           streamNegChannels, packetsPerRequest>>
            /\ UNCHANGED <<genConvert, hwConfigured, hwStreaming, hwSamplesPerPacket>>
            /\ UNCHANGED stRest

\* processStreamData(r['result']) called on the block the next() of
\* streamData(convert = False) has just yielded
ProcessStreamDataCall ==
    LET done == processStreamData(lastRet.result,
                                  14 + (streamSamplesPerPacket * 2))
    IN  /\ lastOp = "next"
        /\ lastRet.kind = "dict"
        /\ ~genConvert
        /\ streamPacketOffset' = done.offset
        /\ lastAttrib' = done.attrib
        /\ sampleCount' = sampleCount + Len(done.attrib)
        /\ lastOp' = "processStreamData"
        /\ lastExc' = done.exc
        /\ lastSent' = <<>>
        /\ UNCHANGED <<deviceName, streamConfiged, streamStarted,
                       streamSamplesPerPacket, streamChannelNumbers,
                       streamNegChannels, packetsPerRequest>>
        /\ UNCHANGED <<genVars, hwVars, lastRet, lastPkts, lastRead,
                       prevCounter, packetsSeen>>
        /\ UNCHANGED stRest

----------------------------------------------------------------------------
(* The stream control specification: one U3 and the streamConfig,           *)
(* streamStart and streamStop calls made on it, over a transport that can   *)
(* fail                                                                     *)

Init ==
    /\ deviceName \in {"U3-LV", "U3-HV", "U6"}
    /\ streamConfiged = FALSE
    /\ streamStarted = FALSE
    /\ streamPacketOffset = 0
    /\ streamSamplesPerPacket = 0
    /\ streamChannelNumbers = <<>>
    /\ streamNegChannels = <<>>
    /\ packetsPerRequest = 0
    /\ genPc = "none"
    /\ genNumBytes = 0
    /\ genConvert = TRUE
    /\ hwConfigured = FALSE
    /\ hwStreaming = FALSE
    /\ hwSamplesPerPacket = 0
    /\ hwCounter = 0
    /\ lastOp = "none"
    /\ lastExc = NoExc
    /\ lastSent = <<>>
    /\ lastRet = NoRet
    /\ lastAttrib = <<>>
    /\ lastPkts = <<>>
    /\ lastRead = "none"
    /\ prevCounter = -1
    /\ packetsSeen = 0
    /\ sampleCount = 0
    /\ CsIdle
    /\ FbIdle
    /\ LkIdle
    /\ ExIdle
    /\ MbIdle
    /\ U6Idle
    /\ AinIdle

Next ==
    \/ StreamConfig
    \/ StreamStart
    \/ StreamStop

Spec == Init /\ [][Next]_vars

----------------------------------------------------------------------------
(* The stream data specification: a U3 on which streamConfig and then       *)
(* streamStart have succeeded, and the reads, stops and restarts that       *)
(* follow, the command exchanges of the stops and restarts going through    *)

\* the configurations whose reads the model draws
DataConfigs ==
    {cfg \in ChanArgs \X RateArgs :
        /\ ConfigArgExc(cfg[1], cfg[2]) = NoExc
        /\ Derived(cfg[2]).packetsPerRequest <= MaxPacketsPerRead}

InitStream ==
    \E cfg \in DataConfigs :
        /\ deviceName \in {"U3-LV", "U3-HV"}
        /\ streamConfiged = TRUE
        /\ streamStarted = TRUE
        /\ streamPacketOffset = 0
        /\ streamSamplesPerPacket = Derived(cfg[2]).SamplesPerPacket
        /\ streamChannelNumbers = cfg[1].PChannels
        /\ streamNegChannels = cfg[1].NChannels
        /\ packetsPerRequest = Derived(cfg[2]).packetsPerRequest
        /\ genPc = "none"
        /\ genNumBytes = 0
        /\ genConvert = TRUE
        /\ hwConfigured = TRUE
        /\ hwStreaming = TRUE
        /\ hwSamplesPerPacket = Derived(cfg[2]).SamplesPerPacket
        /\ hwCounter = 0
        /\ lastOp = "streamStart"
        /\ lastExc = NoExc
        /\ lastSent = << <<168, 168>> >>
        /\ lastRet = NoRet
        /\ lastAttrib = <<>>
        /\ lastPkts = <<>>
        /\ lastRead = "none"
        /\ prevCounter = -1
        /\ packetsSeen = 0
        /\ sampleCount = 0
        /\ CsIdle
        /\ FbIdle
        /\ LkIdle
        /\ ExIdle
        /\ MbIdle
        /\ U6Idle
        /\ AinIdle

NextStream ==
    \/ StreamStartVia("ok")
    \/ StreamStopVia("ok")
    \/ StreamDataCall
    \/ StreamDataNextDead
    \/ StreamDataNextNotStarted
    \/ StreamDataNextNoData
    \/ StreamDataNextData
    \/ ProcessStreamDataCall

SpecStream == InitStream /\ [][NextStream]_vars

----------------------------------------------------------------------------
(* Concurrent callers: Device.deviceLock and the exchanges under it         *)

\* the operations a thread calls that exchange a command and a response
\* with the device: readRegister and writeRegister go through
\* _modbusWriteRead; "lowlevel" is any command sent through _writeRead
\* (streamConfig, streamStart, readMem, ...); getFeedback and
\* getCalibrationData go through _writeRead on a U3 (the latter by readCal
\* and readMem) and call write() and read() themselves on a U6
\* (_readCalDataBlock); ping calls write() and read() itself
Ops == {"readRegister", "writeRegister", "lowlevel", "getFeedback",
        "getCalibrationData", "ping"}

RegisterOps == {"readRegister", "writeRegister"}

Locks_noRegister(dev, op) ==
    \/ op = "lowlevel"
    \/ dev = "U3" /\ op \in {"getFeedback", "getCalibrationData"}

\* the operation does its exchange inside "with self.deviceLock"
Locks(dev, op) ==
    \/ op \in RegisterOps
    \/ op = "lowlevel"
    \/ dev = "U3" /\ op \in {"getFeedback", "getCalibrationData"}

\* the operation writes its request again when the first read() raises
\* LabJackException
Retries(op) == op \in RegisterOps

\* ping does no I/O on a device that is neither a UE9 nor a U3
DoesIO(dev, op) == ~(op = "ping" /\ dev = "U6")

\* the thread has handed its request to write() or is about to, and its
\* exchange is not over
InIO(t) == thPc[t] \in {"write", "read", "rewrite", "reread"}

\* the thread's request is written and its response is not read yet
MidExchange(t) == thPc[t] \in {"read", "rewrite", "reread"}

Released_never(t) == deviceLock

\* leaving the with block, by return or by exception
Released(t) == IF deviceLock = t THEN 0 ELSE deviceLock

\* a thread calls an operation
Call(t) ==
    \E op \in Ops :
        /\ thPc[t] = "idle"
        /\ thOp' = [thOp EXCEPT ![t] = op]
        /\ thPc' = [thPc EXCEPT ![t] =
                       IF ~DoesIO(devType, op) THEN "idle"
                       ELSE IF Locks(devType, op) THEN "acquire" ELSE "write"]
        /\ thOutcome' = [thOutcome EXCEPT ![t] =
                            IF DoesIO(devType, op) THEN "none" ELSE "False"]
        /\ thWrites' = [thWrites EXCEPT ![t] = 0]
        /\ thFailed' = [thFailed EXCEPT ![t] = 0]
        /\ UNCHANGED <<devType, deviceLock>>
        /\ UNCHANGED lkRest

\* with self.deviceLock: entered when the lock is free
Acquire(t) ==
    /\ thPc[t] = "acquire"
    /\ deviceLock = 0
    /\ deviceLock' = t
    /\ thPc' = [thPc EXCEPT ![t] = "write"]
    /\ UNCHANGED <<devType, thOp, thOutcome, thWrites, thFailed>>
    /\ UNCHANGED lkRest

\* self.write(request): it returns, or raises
Write(t) ==
    \E ok \in BOOLEAN :
        /\ thPc[t] \in {"write", "rewrite"}
        /\ thWrites' = [thWrites EXCEPT ![t] = @ + 1]
        /\ IF ok
           THEN /\ thPc' = [thPc EXCEPT ![t] =
                               IF thPc[t] = "write" THEN "read" ELSE "reread"]
                /\ UNCHANGED <<deviceLock, thOutcome>>
           ELSE /\ thPc' = [thPc EXCEPT ![t] = "idle"]
                /\ deviceLock' = Released(t)
                /\ thOutcome' = [thOutcome EXCEPT ![t] =
                                    IF thOp[t] = "ping" THEN "False" ELSE "raised"]
        /\ UNCHANGED <<devType, thOp, thFailed>>
        /\ UNCHANGED lkRest

\* the except branch of _modbusWriteRead is entered from its first read()
\* only
RetryAgain_anyRead(t) == Retries(thOp[t])

RetryAgain(t) == thPc[t] = "read" /\ Retries(thOp[t])

\* the operation checks the response it read: _writeRead calls
\* _checkCommandBytes inside the with block, U3.getFeedback right after its
\* _writeRead has returned
Validates(dev, op) ==
    \/ op = "lowlevel"
    \/ dev = "U3" /\ op \in {"getFeedback", "getCalibrationData"}

\* self.read(n) and what follows it: it returns and the operation returns or
\* its response check raises ("rejected"), or it raises and the operation
\* writes again or lets the exception out
Read(t) ==
    \E ok \in BOOLEAN, valid \in BOOLEAN :
        /\ thPc[t] \in {"read", "reread"}
        /\ valid \/ (ok /\ Validates(devType, thOp[t]))
        /\ thFailed' = [thFailed EXCEPT ![t] = IF ok THEN @ ELSE @ + 1]
        /\ IF ok
           THEN /\ thPc' = [thPc EXCEPT ![t] = "idle"]
                /\ deviceLock' = Released(t)
                /\ thOutcome' = [thOutcome EXCEPT ![t] =
                                    IF ~valid THEN "rejected"
                                    ELSE IF thOp[t] = "ping" THEN "True"
                                    ELSE "returned"]
           ELSE IF RetryAgain(t)
           THEN /\ thPc' = [thPc EXCEPT ![t] = "rewrite"]
                /\ UNCHANGED <<deviceLock, thOutcome>>
           ELSE /\ thPc' = [thPc EXCEPT ![t] = "idle"]
                /\ deviceLock' = Released(t)
                /\ thOutcome' = [thOutcome EXCEPT ![t] =
                                    IF thOp[t] = "ping" THEN "False" ELSE "raised"]
        /\ UNCHANGED <<devType, thOp, thWrites>>
        /\ UNCHANGED lkRest

InitLock ==
    /\ devType \in {"U3", "U6"}
    /\ deviceLock = 0
    /\ thOp = [t \in Threads |-> "none"]
    /\ thPc = [t \in Threads |-> "idle"]
    /\ thOutcome = [t \in Threads |-> "none"]
    /\ thWrites = [t \in Threads |-> 0]
    /\ thFailed = [t \in Threads |-> 0]
    /\ CsIdle
    /\ FbIdle
    /\ StIdle
    /\ ExIdle
    /\ MbIdle
    /\ U6Idle
    /\ AinIdle

NextLock ==
    \E t \in Threads :
        \/ Call(t)
        \/ Acquire(t)
        \/ Write(t)
        \/ Read(t)

SpecLock == InitLock /\ [][NextLock]_vars

----------------------------------------------------------------------------
(* U3._getAINLowLevel: u3.py. The bits are those getFeedback(AIN(...))     *)
(* returned.                                                                *)

\* deviceName.endswith("-HV")
EndsWithDashHV(name) == name \in {"U3-HV"}

\* the voltage _getAINLowLevel returns for the bits read; it calls
\* binaryToCalibratedAnalogVoltage without channelNumber, which is 0 then
getAINLowLevel(name, posChannel, negChannel, bits) ==
    LET isSpecial == negChannel = 32
        neg == IF isSpecial THEN 30 ELSE negChannel
        singleEnded == neg = 31
        lvChannel == ~(EndsWithDashHV(name) /\ posChannel < 4)
    IN  binaryToCalibratedAnalogVoltage(bits, lvChannel, singleEnded, isSpecial, 0)

\* the devices, channels and raw readings drawn: negChannel 31 is single
\* ended, 32 the special setting, 30 and 1 differential
AinDevices == {"U3", "U3-LV", "U3-HV"}
AinPosChannels == 0..7
AinNegChannels == {31, 32, 30, 1}
AinBits == {0, 100, 600}

GetAINLowLevel ==
    /\ ainPc = "call"
    /\ LET v == getAINLowLevel(ainDev, ainPos, ainNeg, ainBits)
       IN  /\ ainPc' = IF v.kind = "raise" THEN "raised" ELSE "returned"
           /\ ainRet' = IF v.kind = "raise" THEN NoReading ELSE v
    /\ UNCHANGED <<ainDev, ainPos, ainNeg, ainBits>>
    /\ UNCHANGED ainRest

InitAIN ==
    /\ ainDev \in AinDevices
    /\ ainPos \in AinPosChannels
    /\ ainNeg \in AinNegChannels
    /\ ainBits \in AinBits
    /\ ainPc = "call"
    /\ ainRet = NoReading
    /\ CsIdle
    /\ FbIdle
    /\ StIdle
    /\ LkIdle
    /\ ExIdle
    /\ MbIdle
    /\ U6Idle

NextAIN == GetAINLowLevel

SpecAIN == InitAIN /\ [][NextAIN]_vars

----------------------------------------------------------------------------
(* Streaming from a U6: Device.streamData and U6.processStreamData, u6.py.  *)
(* A byte of the raw result is -1 when it belongs to a packet's header or   *)
(* footer; the two bytes of the k-th sample since streamStart (k from 0)    *)
(* are 2k and 2k + 1.                                                       *)

\* stream reads of one session
MaxU6Reads == 3

\* one stream packet: 12 header bytes, SamplesPerPacket samples, 2 footer bytes
U6Packet(first, spp) ==
    [i \in 1..(14 + (2 * spp)) |->
        IF i <= 12 \/ i > 12 + (2 * spp) THEN -1 ELSE (2 * first) + (i - 13)]

\* what read(numBytes * packetsPerRequest, stream = True) returns when the
\* device has sent count samples before
U6Result(count, spp, ppr) ==
    Concat([p \in 1..ppr |-> U6Packet(count + ((p - 1) * spp), spp)])

RECURSIVE U6FileSamples(_, _, _, _)
\* the loop body of U6.processStreamData over the samples left
U6FileSamples(samples, chans, j, acc) ==
    IF samples = <<>> THEN acc
    ELSE LET jj == IF j >= Len(chans) THEN 0 ELSE j
         IN  U6FileSamples(Tail(samples), chans, jj + 1,
                           Append(acc, [chan |-> chans[jj + 1], sample |-> Head(samples)]))

\* U6.processStreamData(result): the samples it files, each with its channel
U6processStreamData(result, chans, spp) ==
    LET numBytes == 14 + (spp * Len(chans) * 2)
        packets == breakupPackets(result, numBytes)
    IN  U6FileSamples(Concat([k \in 1..Len(packets) |-> samplesFromPacket(packets[k])]),
                      chans, 0, <<>>)

\* the configurations streamed with
U6Configs ==
    { [chans |-> c, spp |-> s, ppr |-> p] :
        c \in {<<0>>, <<0, 1>>, <<2, 0, 1>>}, s \in {1, 2, 5}, p \in {1, 2} }

\* next(d.streamData(convert)): with convert = True streamData calls
\* self.processStreamData(result, numBytes = numBytes); with convert = False
\* the caller converts with d.processStreamData(returnDict['result'])
U6StreamRead ==
    \E convert \in BOOLEAN :
        /\ u6Spp > 0
        /\ u6Reads < MaxU6Reads
        /\ LET result == U6Result(u6Count, u6Spp, u6Ppr)
           IN  /\ u6Exc' = IF convert
                           THEN Exc("TypeError",
                                    "processStreamData() got an unexpected keyword argument 'numBytes'")
                           ELSE NoExc
               /\ u6Last' = IF convert THEN <<>>
                            ELSE U6processStreamData(result, u6Chans, u6Spp)
        /\ u6Reads' = u6Reads + 1
        /\ u6Count' = u6Count + (u6Spp * u6Ppr)
        /\ UNCHANGED <<u6Chans, u6Spp, u6Ppr>>
        /\ UNCHANGED u6Rest

InitU6Stream ==
    /\ \E c \in U6Configs :
          /\ u6Chans = c.chans
          /\ u6Spp = c.spp
          /\ u6Ppr = c.ppr
    /\ u6Reads = 0
    /\ u6Count = 0
    /\ u6Last = <<>>
    /\ u6Exc = NoExc
    /\ CsIdle
    /\ FbIdle
    /\ StIdle
    /\ LkIdle
    /\ ExIdle
    /\ MbIdle
    /\ AinIdle

NextU6Stream == U6StreamRead

SpecU6Stream == InitU6Stream /\ [][NextU6Stream]_vars

----------------------------------------------------------------------------
(* writeRegister of a 16-bit register: LabJackPython.py, Modbus.py *)

\* Modbus.writeRegisterRequest: TCP_HEADER (transaction id 0, protocol id 0,
\* length 6, unit id 0xff) and pack('>BHH', 0x06, addr, value)
writeRegisterRequest(addr, value) ==
    <<0, 0, 0, 0, 0, 6, 255, 6,
      addr \div 256, addr % 256, value \div 256, value % 256>>

\* Device._parseWriteRegisterResponse: the exception it raises, NoExc when it
\* returns value
parseWriteRegisterResponse(response, request, value) ==
    IF At(request, 2) # 0 /\ At(request, 3) # 0
    THEN Exc("ModbusException", "Got an unexpected protocol ID")
    ELSE IF Len(response) < 8
    THEN Exc("IndexError", "list index out of range")
    ELSE IF At(request, 7) # At(response, 7)
    THEN [Exc("LabJackException", "Modbus error number raised while writing to register")
             EXCEPT !.code = 9002]
    ELSE NoExc

\* registers and values written: the states of FIO0, FIO1 and EIO0 and the
\* direction of FIO0; 8- and 16-bit values
MbAddrs == {6000, 6001, 6008, 6100}
MbValues == {0, 1, 255, 4660}

\* what the device answers: the echo of the request, the echo with another
\* protocol id, with another address, with another value, a Modbus exception
\* response (function code 0x86, exception code 2), or nothing at either
\* attempt of _modbusWriteRead
MbKinds == {"echo", "protocol", "address", "value", "exception", "raise"}

MbResponse(kind, request) ==
    CASE kind = "echo" -> request
      [] kind = "protocol" -> [request EXCEPT ![4] = 1]
      [] kind = "address" -> [request EXCEPT ![10] = (request[10] + 1) % 256]
      [] kind = "value" -> [request EXCEPT ![12] = (request[12] + 1) % 256]
      [] kind = "exception" -> <<0, 0, 0, 0, 0, 3, 255, 134, 2>>
      [] OTHER -> <<>>

\* writeRegister(addr, value): build, _modbusWriteRead, parse
WriteRegister ==
    /\ mbPc = "call"
    /\ \E kind \in MbKinds :
        LET request == writeRegisterRequest(mbAddr, mbValue)
            response == MbResponse(kind, request)
            exc == IF kind = "raise"
                   THEN Exc("LabJackException", "Exodriver returned error number")
                   ELSE parseWriteRegisterResponse(response, request, mbValue)
        IN  /\ mbRequest' = request
            /\ mbResponse' = response
            /\ mbExc' = exc
            /\ mbRet' = IF exc = NoExc THEN mbValue ELSE -1
            /\ mbPc' = IF exc = NoExc THEN "returned" ELSE "raised"
    /\ UNCHANGED <<mbAddr, mbValue>>
    /\ UNCHANGED mbRest

InitModbus ==
    /\ mbAddr \in MbAddrs
    /\ mbValue \in MbValues
    /\ mbPc = "call"
    /\ mbRequest = <<>>
    /\ mbResponse = <<>>
    /\ mbRet = -1
    /\ mbExc = NoExc
    /\ CsIdle
    /\ FbIdle
    /\ StIdle
    /\ LkIdle
    /\ ExIdle
    /\ AinIdle
    /\ U6Idle

NextModbus == WriteRegister

SpecModbus == InitModbus /\ [][NextModbus]_vars

----------------------------------------------------------------------------
(* The streaming examples: Examples/streamTest.py and                       *)
(* Examples/streamTest-threading.py, from the point where the device is     *)
(* open and its stream configured. A call into the device returns or        *)
(* raises; streamStop raises before its write ("writefail") or after it     *)
(* ("readfail").                                                            *)

StopOutcomes == {"ok", "readfail", "writefail"}

\* the log after a streamStop call: the stop command went out unless the
\* write itself failed
Stopped(out) == IF out = "writefail" THEN exLog ELSE Append(exLog, "stop")

\* the first exception of the session
Raise(site) == IF exRaised = "none" THEN site ELSE exRaised

(* streamTest.py *)

\* d.streamStart() at the head of the try block
StStart ==
    \E out \in {"ok", "raise"} :
        /\ exScript = "streamTest"
        /\ exPc = "start"
        /\ exPc' = IF out = "ok" THEN "loop" ELSE "finally"
        /\ exRaised' = IF out = "ok" THEN exRaised ELSE Raise("start")
        /\ UNCHANGED <<exNoData, exScript, exMainPc, exFinished, exDataCount, exQueue, exLog>>
        /\ UNCHANGED exRest

\* one turn of "for r in d.streamData()": the read raises, gives None, or
\* gives a result, which ends the loop at MAX_REQUESTS and is averaged and
\* printed (which may raise) before that
StLoop ==
    \E out \in {"raise", "none", "data", "dataraise"} :
        /\ exScript = "streamTest"
        /\ exPc = "loop"
        /\ exPc' = CASE out = "raise" -> "finally"
                     [] out = "none" -> "loop"
                     [] exDataCount >= MaxRequests -> "finally"
                     [] out = "dataraise" -> "finally"
                     [] OTHER -> "loop"
        /\ exRaised' = CASE out = "raise" -> Raise("read")
                         [] out = "dataraise" /\ exDataCount < MaxRequests ->
                               Raise("summarise")
                         [] OTHER -> exRaised
        /\ exDataCount' = IF out = "data" /\ exDataCount < MaxRequests
                          THEN exDataCount + 1 ELSE exDataCount
        /\ UNCHANGED <<exNoData, exScript, exMainPc, exFinished, exQueue, exLog>>
        /\ UNCHANGED exRest

\* the finally block: d.streamStop(), then d.close() when streamStop returned
StFinally ==
    \E out \in StopOutcomes :
        /\ exScript = "streamTest"
        /\ exPc = "finally"
        /\ exLog' = IF out = "ok" THEN Stopped(out) \o <<"close">> ELSE Stopped(out)
        /\ exRaised' = IF out = "ok" THEN exRaised ELSE "stop"
        /\ exPc' = "exit"
        /\ UNCHANGED <<exNoData, exScript, exMainPc, exFinished, exDataCount, exQueue>>
        /\ UNCHANGED exRest

(* streamTest-threading.py: StreamDataReader.readStreamData in its thread *)

\* self.finished = False, the first statement of readStreamData
RdEnter ==
    /\ exScript = "threading"
    /\ exPc = "enter"
    /\ exFinished' = FALSE
    /\ exPc' = "start"
    /\ UNCHANGED <<exNoData, exScript, exMainPc, exDataCount, exQueue, exLog, exRaised>>
    /\ UNCHANGED exRest

\* self.device.streamStart()
RdStart ==
    \E out \in {"ok", "raise"} :
        /\ exScript = "threading"
        /\ exPc = "start"
        /\ exPc' = IF out = "ok" THEN "loop" ELSE "handler"
        /\ exRaised' = IF out = "ok" THEN exRaised ELSE Raise("start")
        /\ UNCHANGED <<exNoData, exScript, exMainPc, exFinished, exDataCount, exQueue, exLog>>
        /\ UNCHANGED exRest

\* one turn of "while not self.finished": next(streamData(convert=False))
\* raises, gives None, or gives a result that is queued and counted
RdLoop ==
    \E out \in {"raise", "none", "data"} :
        /\ exScript = "threading"
        /\ exPc = "loop"
        /\ ~exFinished
        /\ exPc' = IF out = "raise" THEN "handler" ELSE "loop"
        /\ exRaised' = IF out = "raise" THEN Raise("read") ELSE exRaised
        /\ exQueue' = IF out = "data" THEN exQueue + 1 ELSE exQueue
        /\ exDataCount' = IF out = "data" THEN exDataCount + 1 ELSE exDataCount
        /\ exFinished' = (out = "data" /\ exDataCount + 1 >= MaxRequests)
        /\ exNoData' = IF out = "none" THEN 1 - exNoData ELSE exNoData
        /\ UNCHANGED <<exScript, exMainPc, exLog>>
        /\ UNCHANGED exRest

\* the loop ends: self.device.streamStop() inside the try block
RdStop ==
    \E out \in StopOutcomes :
        /\ exScript = "threading"
        /\ exPc = "loop"
        /\ exFinished
        /\ exLog' = Stopped(out)
        /\ exPc' = IF out = "ok" THEN "summary" ELSE "handler"
        /\ exRaised' = IF out = "ok" THEN exRaised ELSE Raise("stop")
        /\ UNCHANGED <<exNoData, exScript, exMainPc, exFinished, exDataCount, exQueue>>
        /\ UNCHANGED exRest

\* the totals and rates computed and printed after streamStop
RdSummary ==
    \E out \in {"ok", "raise"} :
        /\ exScript = "threading"
        /\ exPc = "summary"
        /\ exPc' = IF out = "ok" THEN "done" ELSE "handler"
        /\ exRaised' = IF out = "ok" THEN exRaised ELSE Raise("summarise")
        /\ UNCHANGED <<exNoData, exScript, exMainPc, exFinished, exDataCount, exQueue, exLog>>
        /\ UNCHANGED exRest

\* except Exception: streamStop() with its own exception ignored, then
\* self.finished = True
RdHandler ==
    \E out \in StopOutcomes :
        /\ exScript = "threading"
        /\ exPc = "handler"
        /\ exLog' = Stopped(out)
        /\ exFinished' = TRUE
        /\ exPc' = "done"
        /\ UNCHANGED <<exNoData, exScript, exMainPc, exDataCount, exQueue, exRaised>>
        /\ UNCHANGED exRest

(* streamTest-threading.py: the main thread *)

\* sdr.data.get(True, 1) returns a result, which is converted and averaged
MainGet ==
    \E out \in {"ok", "raise", "interrupt"} :
        /\ exScript = "threading"
        /\ exMainPc = "get"
        /\ exQueue > 0
        /\ exQueue' = exQueue - 1
        /\ exFinished' = IF out = "ok" THEN exFinished ELSE TRUE
        /\ exMainPc' = IF out = "raise" THEN "join" ELSE "get"
        /\ UNCHANGED <<exNoData, exScript, exPc, exDataCount, exLog, exRaised>>
        /\ UNCHANGED exRest

\* sdr.data.get(True, 1) times out on the empty queue
MainEmpty ==
    /\ exScript = "threading"
    /\ exMainPc = "get"
    /\ exQueue = 0
    /\ exFinished' = TRUE
    /\ exMainPc' = "join"
    /\ UNCHANGED <<exNoData, exScript, exPc, exDataCount, exQueue, exLog, exRaised>>
    /\ UNCHANGED exRest

\* sdrThread.join() returns when readStreamData has; then d.close()
MainClose ==
    /\ exScript = "threading"
    /\ exMainPc = "join"
    /\ exPc = "done"
    /\ exLog' = Append(exLog, "close")
    /\ exMainPc' = "exit"
    /\ UNCHANGED <<exNoData, exScript, exPc, exFinished, exDataCount, exQueue, exRaised>>
    /\ UNCHANGED exRest

InitExample ==
    /\ exScript \in {"streamTest", "threading"}
    /\ exPc = IF exScript = "threading" THEN "enter" ELSE "start"
    /\ exMainPc = IF exScript = "threading" THEN "get" ELSE "none"
    /\ exFinished = FALSE
    /\ exDataCount = 0
    /\ exQueue = 0
    /\ exLog = <<>>
    /\ exRaised = "none"
    /\ exNoData = 0
    /\ CsIdle
    /\ FbIdle
    /\ StIdle
    /\ LkIdle
    /\ MbIdle
    /\ U6Idle
    /\ AinIdle

NextExample ==
    \/ StStart
    \/ StLoop
    \/ StFinally
    \/ RdEnter
    \/ RdStart
    \/ RdLoop
    \/ RdStop
    \/ RdSummary
    \/ RdHandler
    \/ MainGet
    \/ MainEmpty
    \/ MainClose

SpecExample == InitExample /\ [][NextExample]_vars

\* the statements of readStreamData, run by sdrThread
ReaderStep == RdEnter \/ RdStart \/ RdLoop \/ RdStop \/ RdSummary \/ RdHandler

\* the statements of the main thread after sdrThread.start()
MainStep == MainGet \/ MainEmpty \/ MainClose

\* both threads of the threading script keep being scheduled, and the
\* single thread of streamTest.py keeps running
SpecExampleFair ==
    /\ InitExample
    /\ [][NextExample]_vars
    /\ WF_vars(ReaderStep)
    /\ WF_vars(MainStep)
    /\ WF_vars(StStart \/ StLoop \/ StFinally)

\* the script has run to its end
Exited ==
    \/ exScript = "streamTest" /\ exPc = "exit"
    \/ exScript = "threading" /\ exMainPc = "exit"

----------------------------------------------------------------------------
(* Claims on the checksum specification *)

\* C1: round trip. verifyChecksum returns True when it is called on the
\* buffer setChecksum has just written the checksum byte(s) into, for
\* short-form and extended-form buffers of at least 6 bytes.
C1_RoundTrip ==
    (csPc = "verified" /\ csMutAt = -1) => csVerify = "True"

C1_Witness ==
    /\ csPc = "verified"
    /\ csMutAt = -1
    /\ IsExtended(csOrig)
    /\ Len(csOrig) > 6
    /\ At(csOrig, 4) # 0
    /\ csVerify = "True"

\* the byte before and after the replacement
OldByte == At(csOrig, csMutAt)
NewByte == At(csBuf, csMutAt)

\* C2 as stated: sensitivity. Replacing any single non-checksum byte of a
\* framed buffer by a different value makes verifyChecksum return False.
C2_Sensitivity ==
    (csPc = "verified" /\ csMutAt # -1) => csVerify = "False"

\* C2 amended: the replacement is detected whenever it is at offset >= 6 of
\* a command that is and stays extended (16-bit sum), or it keeps the
\* command's form and does not exchange the values 0 and 255 (the folded
\* 8-bit sum is a sum modulo 255).
C2_SensitivityAmended ==
    (csPc = "verified" /\ csMutAt # -1) =>
        ( ( \/ (IsExtended(csOrig) /\ IsExtended(csBuf) /\ csMutAt >= 6)
            \/ (IsExtended(csOrig) = IsExtended(csBuf)
                   /\ {OldByte, NewByte} # {0, 255}) )
          => csVerify = "False" )

C2_Witness ==
    /\ csPc = "verified"
    /\ csMutAt >= 6
    /\ IsExtended(csOrig)
    /\ {OldByte, NewByte} = {0, 255}
    /\ csVerify = "False"

----------------------------------------------------------------------------
(* Claims on the feedback specification *)

\* C3: a getFeedback call that returns gives exactly one result per
\* sub-command of its arguments, in the order of the arguments flattened
\* left to right, nested lists included.
C3_OneResultPerCommand ==
    fbPc = "returned" =>
        /\ Len(fbResults) = Len(Flatten(fbArgs))
        /\ \A k \in 1..Len(fbResults) : fbResults[k].by = Flatten(fbArgs)[k].name

\* a call whose first argument is a list holding a list of one sub-command,
\* followed by another sub-command, has returned its two results
C3_Witness ==
    /\ fbPc = "returned"
    /\ Len(fbArgs) = 2
    /\ fbArgs[1].kind = "list"
    /\ Len(fbArgs[1].items) = 1
    /\ fbArgs[1].items[1].kind = "list"
    /\ Len(fbArgs[1].items[1].items) = 1
    /\ fbArgs[2].kind = "cmd"
    /\ Len(fbResults) = 2
    /\ fbResults[1].by = "AIN"
    /\ fbResults[2].by = "BitStateRead"

\* C12: a U3.getFeedback call that reads a response of full length failing
\* checksum verification, or not echoing the feedback command bytes (0xF8 at
\* byte 1, 0x00 at byte 3), raises and decodes nothing: no result of any
\* sub-command's handle exists
C12_NoDecodeOnBadFrame ==
    ( /\ fbDev = "U3"
      /\ fbPc # "call"
      /\ Len(fbRcv) >= 8
      /\ \/ ~verifyChecksum(fbRcv)
         \/ At(fbRcv, 1) # 248
         \/ At(fbRcv, 3) # 0 )
    => (fbPc = "raised" /\ fbExc # NoExc /\ fbResults = <<>>)

\* a response with a corrupted checksum to a request with a sub-command that
\* has data to decode
C12_Witness ==
    /\ fbDev = "U3"
    /\ fbPc = "raised"
    /\ Len(fbRcv) >= 12
    /\ ~verifyChecksum(fbRcv)
    /\ At(fbRcv, 1) = 248
    /\ \E k \in 1..Len(Flatten(fbArgs)) : Flatten(fbArgs)[k].name = "AIN"
    /\ fbResults = <<>>

\* the length of the request of the sub-commands of fbArgs, padded to even,
\* and the length of the response expected, rounded up to even
RequestLength ==
    LET n == 7 + SumSeq([k \in 1..Len(Flatten(fbArgs)) |->
                            Len(cmdBytes(fbDev, Flatten(fbArgs)[k]))])
    IN  n + (n % 2)

ResponseLength ==
    LET n == 9 + SumSeq([k \in 1..Len(Flatten(fbArgs)) |->
                            readLen(Flatten(fbArgs)[k])])
    IN  n + (n % 2)

\* C13: a U3.getFeedback call whose request, padded to even length, is
\* longer than 64 bytes, or whose expected response, rounded up to even, is
\* longer than 64 bytes, raises LabJackException having written nothing and
\* read nothing
C13_FailFastOnSize ==
    ( /\ fbDev = "U3"
      /\ fbPc # "call"
      /\ (RequestLength > 64 \/ ResponseLength > 64) )
    => ( /\ fbPc = "raised"
         /\ fbExc.type = "LabJackException"
         /\ fbSent = <<>>
         /\ fbReadLen = -1
         /\ fbRcv = <<>> )

\* 14 Counter sub-commands: a 36-byte request whose response would take 66
C13_Witness ==
    /\ fbDev = "U3"
    /\ fbPc = "raised"
    /\ Len(fbArgs) = 14
    /\ fbArgs[1].name = "Counter"
    /\ RequestLength = 36
    /\ ResponseLength = 66
    /\ fbSent = <<>>

\* the U3 read a well-formed feedback response whose status byte is nonzero
\* and whose error-frame byte is the position of one of the sub-commands sent
DeviceErrorNamed ==
    /\ fbDev = "U3"
    /\ fbPc # "call"
    /\ Len(fbRcv) >= 8
    /\ verifyChecksum(fbRcv)
    /\ At(fbRcv, 1) = 248
    /\ At(fbRcv, 6) # 0
    /\ At(fbRcv, 7) \in 1..Len(Flatten(fbArgs))

\* C14: when the device answers a U3 feedback request with a nonzero status
\* byte, getFeedback raises LowlevelErrorException naming the sub-command at
\* the 1-based position of the error-frame byte, counted over the
\* sub-commands in the order they were serialized
C14_CulpritByPosition ==
    DeviceErrorNamed =>
        /\ fbPc = "raised"
        /\ fbExc.type = "LowlevelErrorException"
        /\ fbExc.culprit = Flatten(fbArgs)[At(fbRcv, 7)]

\* the response read carries the feedback command byte and a checksum byte
\* (0, 4 or 5) other than the one setChecksum computes for it
ChecksumCorrupted ==
    /\ fbPc # "call"
    /\ Len(fbRcv) >= 8
    /\ At(fbRcv, 1) = 248
    /\ fbRcv # setChecksum(fbRcv)

\* C15: the check of a response whose checksum is corrupted and whose command
\* bytes are the expected ones raises the checksum mismatch ("Checksum was
\* incorrect."), not LowlevelErrorException and not the exception of a failed
\* read or write, whatever the status byte of the response
C15_ChecksumErrorKind ==
    (fbDev = "U3" /\ ChecksumCorrupted) =>
        /\ fbPc = "raised"
        /\ fbExc = Exc("LabJackException", "Checksum was incorrect.")

\* a corrupted response whose status byte is nonzero
C15_Witness ==
    /\ fbDev = "U3"
    /\ ChecksumCorrupted
    /\ At(fbRcv, 6) = DevErrCode
    /\ fbExc.why = "Checksum was incorrect."

\* C16: a non-empty response shorter than the length asked for makes the
\* command raise LabJackException, and nothing of it is decoded and returned
C16_ShortResponseFails ==
    (fbPc # "call" /\ Len(fbRcv) > 0 /\ Len(fbRcv) < fbReadLen) =>
        /\ fbPc = "raised"
        /\ fbExc.type \in {"LabJackException", "LowlevelErrorException"}
        /\ fbResults = <<>>

\* the offset at which the response bytes of the k-th sub-command of the
\* flattened arguments start
ExpectedOffset(k) ==
    9 + SumSeq([j \in 1..(k - 1) |-> readLen(Flatten(fbArgs)[j])])

\* C23: each sub-command of the flattened arguments is decoded from the
\* response slice starting at 9 plus the read lengths of the sub-commands
\* before it, also when it comes after a nested list
C23_SliceOffsets ==
    fbPc = "returned" =>
        \A k \in 1..Len(fbResults) : fbResults[k].at = ExpectedOffset(k)

\* C25: a U6.getFeedback call that reads a response failing checksum
\* verification, not echoing the feedback command byte, or carrying a
\* nonzero status byte raises, and no sub-command's handle is run on it
C25_U6ValidatesResponse ==
    ( /\ fbDev = "U6"
      /\ fbPc # "call"
      /\ Len(fbRcv) >= 8
      /\ \/ ~verifyChecksum(fbRcv)
         \/ At(fbRcv, 1) # 248
         \/ At(fbRcv, 6) # 0 )
    => (fbPc = "raised" /\ fbResults = <<>>)

----------------------------------------------------------------------------
(* Claims on the stream data specification *)

\* C4: a next() of streamData that reads packets raises nothing and yields a
\* block whose 'errors' is the number of its sub-packets with a nonzero error
\* byte and whose 'missed' is the sum of the dropped-sample counts carried in
\* bytes 6..9 of the sub-packets whose error byte is 60 alone; it sends no
\* command, leaves streamStarted and the hardware streaming, and leaves the
\* generator running
C4_Autorecover ==
    [][ (lastOp' = "next" /\ lastPkts' # <<>>) =>
            /\ lastExc' = NoExc
            /\ lastRet'.kind = "dict"
            /\ lastRet'.errors =
                  Cardinality({k \in 1..Len(lastPkts') : lastPkts'[k].err # 0})
            /\ lastRet'.missed =
                  Cardinality({k \in 1..Len(lastPkts') :
                                  lastPkts'[k].err = STREAM_AUTORECOVER_REPORT})
                      * unpackI(DroppedField)
            /\ lastSent' = <<>>
            /\ streamStarted' = streamStarted
            /\ hwStreaming' = hwStreaming
            /\ genPc' = "running" ]_vars

\* one read with a sub-packet of error byte 60 and one of error byte 59
C4_Witness ==
    /\ lastOp = "next"
    /\ Len(lastPkts) = 2
    /\ lastPkts[1].err = STREAM_AUTORECOVER_REPORT
    /\ lastPkts[2].err = STREAM_AUTORECOVER_ACTIVE
    /\ lastRet.errors = 2
    /\ lastRet.missed = 258
    /\ streamStarted

\* the PacketCounter values of the block read last are not consecutive, among
\* themselves or with the packet read before them
CounterGap ==
    \E k \in 1..Len(lastPkts) :
        LET before == IF k = 1 THEN prevCounter ELSE lastPkts[k - 1].counter
        IN  before # -1 /\ lastPkts[k].counter # (before + 1) % 256

\* C5: whenever the sub-packets streamData reads do not carry consecutive
\* PacketCounter values, the block it yields reports the gap in its errors or
\* missed totals (or the read raises)
C5_GapReported ==
    (lastOp = "next" /\ lastPkts # <<>> /\ CounterGap) =>
        (lastRet.errors > 0 \/ lastRet.missed > 0 \/ lastExc # NoExc)

\* C6: the readings a processStreamData call appends go, in order, to the
\* channels the cursor reaches counting every sample de-interleaved since
\* streamStart: the k-th sample overall (from 0) goes to
\* PChannels[k mod NumChannels]
C6_Deinterleave ==
    \A j \in 1..Len(lastAttrib) :
        lastAttrib[j].chan =
            streamChannelNumbers[
                ((sampleCount - Len(lastAttrib) + j - 1)
                    % Len(streamChannelNumbers)) + 1]

\* a call that starts in the middle of a scan, over packets that do not hold
\* a whole number of scans
C6_Witness ==
    /\ Len(streamChannelNumbers) = 3
    /\ streamSamplesPerPacket % 3 # 0
    /\ lastAttrib # <<>>
    /\ (sampleCount - Len(lastAttrib)) % 3 = 2
    /\ lastAttrib[1].chan = streamChannelNumbers[3]
    /\ lastAttrib[2].chan = streamChannelNumbers[1]

\* C17: a next() whose stream read gives zero bytes raises nothing and
\* yields None, leaves streamStarted as it was and the generator suspended in
\* its loop; the next() that follows performs a stream read again
C17_EmptyReadYieldsNone ==
    [][ /\ (lastOp' = "next" /\ lastRead' = "empty") =>
              /\ lastExc' = NoExc
              /\ lastRet'.kind = "None"
              /\ streamStarted' = streamStarted
              /\ genPc' = "running"
        /\ (lastOp = "next" /\ lastRead = "empty" /\ lastOp' = "next") =>
              lastRead' \in {"raised", "empty", "partial", "full"} ]_vars

\* a started stream whose last read, after packets were read, was empty
C17_Witness ==
    /\ lastOp = "next"
    /\ lastRead = "empty"
    /\ lastRet.kind = "None"
    /\ streamStarted
    /\ packetsSeen > 0

\* C22: a next() of streamData performs a stream read only while the stream
\* is started: not before streamStart, and not after a streamStop that
\* succeeded, whenever the iterator was made
C22_ReadsOnlyWhileStarted ==
    [][ (lastOp' = "next" /\ lastRead' # "none") => streamStarted ]_vars

----------------------------------------------------------------------------
(* Claims on the stream control specification *)

\* C7: a streamStart call made while the stream is configured and not started
\* sends the one start command; made before a successful streamConfig or
\* while the stream is started it raises LabJackException, sends nothing,
\* reaches no hardware and leaves streamConfiged and streamStarted as they
\* were
C7_StartGuard ==
    [][ lastOp' = "streamStart" =>
            IF streamConfiged /\ ~streamStarted
            THEN lastSent' = << <<168, 168>> >>
            ELSE /\ lastExc'.type = "LabJackException"
                 /\ lastSent' = <<>>
                 /\ streamConfiged' = streamConfiged
                 /\ streamStarted' = streamStarted
                 /\ UNCHANGED hwVars ]_vars

\* streamStart was called on a started stream
C7_Witness ==
    /\ lastOp = "streamStart"
    /\ streamConfiged
    /\ streamStarted
    /\ lastExc = Exc("LabJackException", "Stream already started.")
    /\ lastSent = <<>>

\* C8: a streamStop call made while streamStarted is False leaves it False and
\* changes nothing else of the device object; when the hardware is not
\* streaming either, the call changes nothing in the hardware and raises: the
\* LowlevelErrorException it raises carries the hardware's STREAM_NOT_RUNNING
\* status, the other exceptions are those of a failed exchange
C8_StopNotStarted ==
    [][ (lastOp' = "streamStop" /\ ~streamStarted) =>
            /\ streamStarted' = FALSE
            /\ UNCHANGED objVars
            /\ ~hwStreaming =>
                  /\ UNCHANGED hwVars
                  /\ lastExc'.type \in {"LowlevelErrorException", "LabJackException",
                                        "IndexError"}
                  /\ lastExc'.type = "LowlevelErrorException" =>
                        lastExc'.code = STREAM_NOT_RUNNING ]_vars

\* streamStop was called on a stream that is not started, and the hardware
\* answered
C8_Witness ==
    /\ lastOp = "streamStop"
    /\ ~streamStarted
    /\ ~hwStreaming
    /\ lastExc.type = "LowlevelErrorException"
    /\ lastExc.code = STREAM_NOT_RUNNING

\* the StreamConfig command of the last call, and the fields it carries
SentConfig == lastSent[1]
SentSamplesPerPacket ==
    IF deviceName = "U6" THEN At(SentConfig, 8) ELSE At(SentConfig, 7)
SentScanInterval ==
    IF deviceName = "U6"
    THEN At(SentConfig, 12) + (At(SentConfig, 13) * 256)
    ELSE At(SentConfig, 10) + (At(SentConfig, 11) * 256)

\* C20: after a streamConfig that succeeded, on a U3 or a U6 and whatever
\* rate arguments it was given, the command sent is made of bytes and carries
\* a ScanInterval of 1..65535 and a SamplesPerPacket of 1..25, which is also
\* the streamSamplesPerPacket stored, and packetsPerRequest is in 1..48
C20_RatesClamped ==
    (lastOp = "streamConfig" /\ lastExc = NoExc) =>
        /\ \A k \in DOMAIN SentConfig : SentConfig[k] \in 0..255
        /\ SentScanInterval >= 1 /\ SentScanInterval <= 65535
        /\ SentSamplesPerPacket >= 1 /\ SentSamplesPerPacket <= 25
        /\ streamSamplesPerPacket = SentSamplesPerPacket
        /\ packetsPerRequest >= 1 /\ packetsPerRequest <= 48

\* a U6 configured with SamplesPerPacket = 26 and ScanInterval = 70000, the
\* only arguments drawn that give 25 and 65535
C20_Witness ==
    /\ lastOp = "streamConfig"
    /\ lastExc = NoExc
    /\ deviceName = "U6"
    /\ SentSamplesPerPacket = 25
    /\ SentScanInterval = 65535
    /\ packetsPerRequest = 1

\* C26: a streamConfig call that raises, before its exchange or in it,
\* leaves streamConfiged, streamSamplesPerPacket, the stored channel lists
\* and packetsPerRequest as they were
C26_FailedConfigKeepsState ==
    [][ (lastOp' = "streamConfig" /\ lastExc' # NoExc) =>
            UNCHANGED <<streamConfiged, streamSamplesPerPacket, streamChannelNumbers,
                        streamNegChannels, packetsPerRequest>> ]_vars

\* a configured device whose last streamConfig sent a command with another
\* SamplesPerPacket and raised in the exchange
C26_Witness ==
    /\ lastOp = "streamConfig"
    /\ lastExc # NoExc
    /\ lastSent # <<>>
    /\ streamConfiged
    /\ SentSamplesPerPacket # streamSamplesPerPacket

----------------------------------------------------------------------------
(* Claims on the concurrent callers *)

\* C9: a thread in readRegister or writeRegister holds the device lock from
\* its first write() to the end of its last read(), the retry included, so
\* of two threads in those operations at most one has an exchange under way
C9_RegisterExchangeLocked ==
    /\ \A t \in Threads :
          (thOp[t] \in RegisterOps /\ InIO(t)) => deviceLock = t
    /\ \A t, u \in Threads :
          (t # u /\ thOp[t] \in RegisterOps /\ thOp[u] \in RegisterOps)
              => ~(MidExchange(t) /\ MidExchange(u))

\* one thread is reading the response to its retried request while another
\* register call waits for the lock
C9_Witness ==
    \E t, u \in Threads :
        /\ thOp[t] = "readRegister"
        /\ thPc[t] = "reread"
        /\ thOp[u] = "writeRegister"
        /\ thPc[u] = "acquire"

\* C10: every operation that exchanges a command and a response with the
\* device does so with the device lock held, so no two threads have an
\* exchange under way at once
C10_EveryExchangeLocked ==
    /\ \A t \in Threads : InIO(t) => deviceLock = t
    /\ \A t, u \in Threads : t # u => ~(MidExchange(t) /\ MidExchange(u))

\* C27: the device lock is held only by a thread that is inside its
\* exchange: a thread whose operation is over, by return, by an exception of
\* write or read, after a failed retry or by a rejected response, does not
\* hold it, so a lock that is taken is taken by a thread still at work
C27_LockReleased ==
    /\ \A t \in Threads : thPc[t] \in {"idle", "acquire"} => deviceLock # t
    /\ deviceLock # 0 => (InIO(deviceLock) /\ Locks(devType, thOp[deviceLock]))

\* after a register call whose retry failed and a low-level command whose
\* response was rejected, the lock is held by the other thread of the two
C27_Witness ==
    \E t, u \in Threads :
        /\ t # u
        /\ thPc[t] = "idle"
        /\ thOutcome[t] \in {"raised", "rejected"}
        /\ thOp[t] \in RegisterOps => thFailed[t] = 2
        /\ thOp[t] \in RegisterOps \/ thOutcome[t] = "rejected"
        /\ deviceLock = u

\* C11: one readRegister or writeRegister calls write() at most twice; it
\* has written twice only after a read() of it raised LabJackException, and
\* once its second read() has raised too it is over, the exception let out
\* to the caller
C11_BoundedRetry ==
    \A t \in Threads :
        thOp[t] \in RegisterOps =>
            /\ thWrites[t] <= 2
            /\ thWrites[t] = 2 => thFailed[t] >= 1
            /\ thFailed[t] = 2 =>
                  /\ thWrites[t] = 2
                  /\ thPc[t] = "idle"
                  /\ thOutcome[t] = "raised"

\* a register read whose two attempts both failed
C11_Witness ==
    \E t \in Threads :
        /\ thOp[t] = "readRegister"
        /\ thWrites[t] = 2
        /\ thFailed[t] = 2
        /\ thOutcome[t] = "raised"

----------------------------------------------------------------------------
(* Claims on the streaming examples *)

\* C18: however a streaming session of an example script ends (requests all
\* read, a stop asked for by the consumer, an exception raised by starting,
\* reading or summarising), the script has written the stop command to the
\* device exactly once and closed the handle after it
C18_StopOnceThenClose ==
    Exited => exLog = <<"stop", "close">>

\* C29: in the threading script, once the consumer has decided to stop and
\* set sdr.finished (it waits in join), the reader thread eventually leaves
\* its loop, join returns and the device is closed, under every
\* interleaving of the two threads
C29_ConsumerStopEndsReader ==
    (exScript = "threading" /\ exMainPc = "join") ~> (exMainPc = "exit")

----------------------------------------------------------------------------
(* Claims on writeRegister *)

\* the response carries the protocol id (bytes 2, 3) and the register
\* address (bytes 8, 9) of the request
EchoesFields ==
    /\ Len(mbResponse) >= 10
    /\ \A k \in {2, 3, 8, 9} : At(mbResponse, k) = At(mbRequest, k)

----------------------------------------------------------------------------
(* Claims on U3._getAINLowLevel *)

\* C21: a reading of channel c < 4 of a device named "...-HV" is converted
\* with the high-voltage slope and offset of channel c, every other reading
\* with the low-voltage entries
C21_CalibrationOfChannel ==
    ainPc = "returned" =>
        IF ainDev = "U3-HV" /\ ainPos < 4
        THEN ainRet.kind \in {"hvSE", "hvSpecial"} /\ ainRet.hvCal = ainPos
        ELSE ainRet.kind \in {"lvSE", "lvSpecial", "lvDiff"} /\ ainRet.hvCal = -1

----------------------------------------------------------------------------
(* Claims on streaming from a U6 *)

\* C24: after every stream read of a U6 session the readings filed are the
\* samples of that read, whole and in order, and the k-th sample since
\* streamStart is filed under ChannelNumbers[k mod NumChannels]
C24_U6Deinterleave ==
    u6Reads > 0 =>
        LET n == u6Spp * u6Ppr
            first == u6Count - n
        IN  /\ u6Exc = NoExc
            /\ Len(u6Last) = n
            /\ \A i \in 1..Len(u6Last) :
                  LET k == first + (i - 1)
                  IN  /\ u6Last[i].sample = <<2 * k, (2 * k) + 1>>
                      /\ u6Last[i].chan = u6Chans[(k % Len(u6Chans)) + 1]

----------------------------------------------------------------------------
(* Claims on the U6 AIN24 requests *)

\* C30: every element of the request buffer that getFeedback hands to the
\* transport is an integer in 0..255, for AIN24 and AIN24AR sub-commands
\* built from arguments within their documented ranges, Differential=True
\* included
C30_RequestBytesInRange ==
    \A k \in DOMAIN fbSent : fbSent[k] \in 0..255

============================================================================
